---------------------------- MODULE Spec2Model ----------------------------
(***************************************************************************)
(* A model of rsbmalloc-pkey: the binned slab allocator (RSBMalloc, Bins,  *)
(* Bin, Slot, FreeList of rust-alloc/src/allocator.rs), the page allocator *)
(* (rust-alloc/src/page_allocator.rs) and the kernel services they use     *)
(* (mmap, munmap and the process's memory).                                *)
(*                                                                         *)
(* Addresses are integers.  Memory is byte-granular and sparse: mem maps   *)
(* the addresses that hold a non-zero byte to that byte; every other       *)
(* mapped byte reads 0 (an anonymous mapping is zero-filled).              *)
(***************************************************************************)
EXTENDS Integers, Sequences, FiniteSets, Bags, TLC

(***************************************************************************)
(* Program constants                                                       *)
(***************************************************************************)
RSB_CHUNK_SIZE == 65536
MAX_ALIGN == 4096
PAGE_SIZE == 4096
\* size and alignment of Option<NonNull<S>>, the link field of a slot
PtrSize == 8
NULL == 0
\* mmap's failure result, (void *) -1
MAP_FAILED == -1
\* the match arm `_ => self.pages...`: no bin serves the request
HUGE == 0
\* the access rights of pkey_set / pkey_get
PKEY_DISABLE_ACCESS == 1
PKEY_DISABLE_WRITE == 2
\* a spin::Mutex nobody holds
NoOwner == 0

(***************************************************************************)
(* Bounds of the model                                                     *)
(***************************************************************************)
\* pages of address space the kernel hands out
SpacePages == 48
\* facade calls in a run of the single-bin specification
MaxBinOps == 9
\* blocks the callers hold at once
MaxLive == 3
\* threads calling into one heap
NumThreads == 2
\* facade calls in a run of the concurrent specification
MaxConcOps == 5
\* facade calls and stores in a run of the sequential specification
MaxOps == 5
\* facade calls and stores in a run of the frame specification
MaxFrameOps == 6
\* facade calls and stores in a run of the shrink specification
MaxShrinkOps == 4
\* with_level calls a thread nests
MaxNest == 2
\* calls and accesses in a run of the access-level specification
MaxLevelOps == 4
\* facade calls in a run of the dispatch specification
MaxDispatchOps == 4
\* calls in a run of the page-allocator specification
MaxPagesOps == 3
\* mappings the caller of the page allocator holds at a time
MaxMappings == 2
\* mappings the kernel may refuse in a run
MaxRefusals == 1
\* calls in a run of the specification with refused chunks
MaxRefuseOps == 4
\* calls in a run of the specification with free_all among the callers
MaxLockOps == 4
MaxFairOps == 3
MaxElevateOps == 3
MaxRegrowOps == 3
\* calls on the domain in a run of the teardown specification
MaxTeardownOps == 3
\* handles of a domain, with_level's clones included
MaxHandles == 3

Max(a, b) == IF a >= b THEN a ELSE b
Min(a, b) == IF a <= b THEN a ELSE b
RoundUp(n, a) == ((n + a - 1) \div a) * a

(***************************************************************************)
(* core::alloc::Layout                                                     *)
(***************************************************************************)
Layout(size, align) == [size |-> size, align |-> align]
pad_to_align(layout) == Layout(RoundUp(layout.size, layout.align), layout.align)
align_to(layout, align) == Layout(layout.size, Max(layout.align, align))

(***************************************************************************)
(* The fifteen size classes: slot!(name, len [, align]).                   *)
(***************************************************************************)
Classes == 1..15
SlotLen == <<4, 8, 16, 32, 64, 128, 256, 512, 1024, 2048, 4096,
             8192, 16384, 32768, 65536>>
SlotReprAlign == <<4, 4, 16, 32, 64, 128, 256, 512, 1024, 2048, 4096,
                   4096, 4096, 4096, 4096>>
\* S::SIZE
SIZE(c) == SlotLen[c]
\* mem::align_of::<S>(): the union holds a pointer, repr(align) only raises
align_of(c) == Max(SlotReprAlign[c], PtrSize)
\* mem::size_of::<S>(): the larger field, rounded up to the alignment
size_of(c) == RoundUp(Max(SlotLen[c], PtrSize), align_of(c))

\* the match arms of RSBMalloc::allocate, in source order
AllocArms_wide ==
  << [lo |-> 0, hi |-> 4], [lo |-> 5, hi |-> 8], [lo |-> 9, hi |-> 16],
     [lo |-> 17, hi |-> 32], [lo |-> 33, hi |-> 64], [lo |-> 65, hi |-> 128],
     [lo |-> 129, hi |-> 256], [lo |-> 257, hi |-> 512],
     [lo |-> 513, hi |-> 1024], [lo |-> 1025, hi |-> 2048],
     [lo |-> 2049, hi |-> 4096], [lo |-> 4097, hi |-> 8192],
     [lo |-> 8193, hi |-> 16384], [lo |-> 16385, hi |-> 32768],
     [lo |-> 32769, hi |-> 131072] >>
AllocArms ==
  << [lo |-> 0, hi |-> 4], [lo |-> 5, hi |-> 8], [lo |-> 9, hi |-> 16],
     [lo |-> 17, hi |-> 32], [lo |-> 33, hi |-> 64], [lo |-> 65, hi |-> 128],
     [lo |-> 129, hi |-> 256], [lo |-> 257, hi |-> 512],
     [lo |-> 513, hi |-> 1024], [lo |-> 1025, hi |-> 2048],
     [lo |-> 2049, hi |-> 4096], [lo |-> 4097, hi |-> 8192],
     [lo |-> 8193, hi |-> 16384], [lo |-> 16385, hi |-> 32768],
     [lo |-> 32769, hi |-> 65536] >>
\* the arms of deallocate with the first boundary one byte low
DeallocArms_shifted ==
  << [lo |-> 0, hi |-> 3], [lo |-> 4, hi |-> 8], [lo |-> 9, hi |-> 16],
     [lo |-> 17, hi |-> 32], [lo |-> 33, hi |-> 64], [lo |-> 65, hi |-> 128],
     [lo |-> 129, hi |-> 256], [lo |-> 257, hi |-> 512],
     [lo |-> 513, hi |-> 1024], [lo |-> 1025, hi |-> 2048],
     [lo |-> 2049, hi |-> 4096], [lo |-> 4097, hi |-> 8192],
     [lo |-> 8193, hi |-> 16384], [lo |-> 16385, hi |-> 32768],
     [lo |-> 32769, hi |-> 65536] >>
\* the match arms of RSBMalloc::deallocate, in source order
DeallocArms ==
  << [lo |-> 0, hi |-> 4], [lo |-> 5, hi |-> 8], [lo |-> 9, hi |-> 16],
     [lo |-> 17, hi |-> 32], [lo |-> 33, hi |-> 64], [lo |-> 65, hi |-> 128],
     [lo |-> 129, hi |-> 256], [lo |-> 257, hi |-> 512],
     [lo |-> 513, hi |-> 1024], [lo |-> 1025, hi |-> 2048],
     [lo |-> 2049, hi |-> 4096], [lo |-> 4097, hi |-> 8192],
     [lo |-> 8193, hi |-> 16384], [lo |-> 16385, hi |-> 32768],
     [lo |-> 32769, hi |-> 65536] >>
\* a match on size: the first arm whose range holds it, HUGE for `_`
MatchArm(arms, size) ==
  LET hits == {c \in DOMAIN arms : arms[c].lo <= size /\ size <= arms[c].hi}
  IN  IF hits = {} THEN HUGE
      ELSE CHOOSE c \in hits : \A d \in hits : c <= d
AllocBinOf(size) == MatchArm(AllocArms, size)
DeallocBinOf(size) == MatchArm(DeallocArms, size)

(***************************************************************************)
(* The kernel: mapped pages and the process's memory.                      *)
(* A heap state H is [bins, mapped, mem, fault, enomem].                   *)
(***************************************************************************)
\* lowest page the kernel maps (the first RSB_CHUNK_SIZE bytes stay unmapped)
FirstPage == RSB_CHUNK_SIZE \div PAGE_SIZE
LastPage == FirstPage + SpacePages - 1
\* the pages that the byte range [addr, addr + len) touches
PagesOf(addr, len) ==
  IF len <= 0 THEN {}
  ELSE {p \in -1..LastPage :
          p >= (IF addr < 0 THEN -1 ELSE addr \div PAGE_SIZE)
          /\ p <= (IF addr + len - 1 < 0 THEN -1 ELSE (addr + len - 1) \div PAGE_SIZE)}
Range(addr, len) == addr..(addr + len - 1)
\* page numbers at which a run of n free pages starts
Fits(H, n) ==
  {p \in FirstPage..(LastPage - n + 1) : \A q \in p..(p + n - 1) : q \notin H.mapped}
\* what mmap(hint, len, ...) without MAP_FIXED may answer: the hinted address,
\* the lowest or the highest free run, or MAP_FAILED when it may refuse
MmapAnswers(H, hint, len) ==
  LET n == RoundUp(len, PAGE_SIZE) \div PAGE_SIZE
      fits == Fits(H, n)
      picks == {p \in fits : \/ \A q \in fits : p <= q
                             \/ \A q \in fits : p >= q
                             \/ p * PAGE_SIZE = hint}
  IN  IF len = 0 THEN {MAP_FAILED}
      ELSE {p * PAGE_SIZE : p \in picks}
           \cup (IF H.enomem > 0 THEN {MAP_FAILED} ELSE {})
\* libc::mmap answering k
mmap(H, len, k) ==
  IF k = MAP_FAILED
  THEN [H EXCEPT !.enomem = IF len = 0 THEN @ ELSE @ - 1]
  ELSE [H EXCEPT !.mapped = @ \cup PagesOf(k, RoundUp(len, PAGE_SIZE))]
\* libc::munmap: EINVAL (no effect) on a misaligned address or a zero length
munmap(H, addr, len) ==
  IF addr < 0 \/ addr % PAGE_SIZE # 0 \/ len <= 0 THEN H
  ELSE LET gone == PagesOf(addr, RoundUp(len, PAGE_SIZE))
       IN  [H EXCEPT !.mapped = @ \ gone,
                     !.mem = [a \in {b \in DOMAIN @ : (b \div PAGE_SIZE) \notin gone}
                                |-> @[a]]]

\* the process may touch [addr, addr + len)
Accessible(H, addr, len) == PagesOf(addr, len) \subseteq H.mapped
Byte(m, a) == IF a \in DOMAIN m THEN m[a] ELSE 0
\* the bytes of a pointer, little-endian (addresses of the model are below 2^31)
PtrBytes(p) ==
  [i \in 1..PtrSize |->
     IF p < 0 THEN 255
     ELSE IF i = 1 THEN p % 256
     ELSE IF i = 2 THEN (p \div 256) % 256
     ELSE IF i = 3 THEN (p \div 65536) % 256
     ELSE IF i = 4 THEN (p \div 16777216) % 256
     ELSE 0]
\* the pointer that PtrSize bytes at a hold; bytes above 2^31 make it an
\* address outside the modelled address space
LoadPtr(m, a) ==
  IF \E i \in 5..PtrSize : Byte(m, a + i - 1) # 0 THEN MAP_FAILED
  ELSE IF Byte(m, a + 3) >= 128 THEN MAP_FAILED
  ELSE Byte(m, a) + 256 * Byte(m, a + 1) + 65536 * Byte(m, a + 2)
       + 16777216 * Byte(m, a + 3)
\* m with the bytes bs written at a
StoreBytes(m, a, bs) ==
  LET n == Len(bs)
      dom == (DOMAIN m \ Range(a, n)) \cup {a + i - 1 : i \in {j \in 1..n : bs[j] # 0}}
  IN  [b \in dom |-> IF b \in Range(a, n) THEN bs[b - a + 1] ELSE m[b]]
\* ptr::write_bytes(dst, 0, len)
write_bytes(H, dst, len) ==
  IF len = 0 THEN H
  ELSE IF ~Accessible(H, dst, len) THEN [H EXCEPT !.fault = TRUE]
  ELSE [H EXCEPT !.mem = [a \in DOMAIN @ \ Range(dst, len) |-> @[a]]]
\* ptr::copy_nonoverlapping(src, dst, len)
copy_nonoverlapping(H, src, dst, len) ==
  IF len = 0 THEN H
  ELSE IF ~Accessible(H, src, len) \/ ~Accessible(H, dst, len)
  THEN [H EXCEPT !.fault = TRUE]
  ELSE LET m == H.mem
           from == DOMAIN m \cap Range(src, len)
           dom == (DOMAIN m \ Range(dst, len)) \cup {a - src + dst : a \in from}
       IN  [H EXCEPT !.mem = [b \in dom |-> IF b \in Range(dst, len)
                                             THEN m[b - dst + src] ELSE m[b]]]

(***************************************************************************)
(* PageAllocator                                                           *)
(***************************************************************************)
\* the size PageAllocator::alloc asks mmap for
PageAllocLen(layout) == pad_to_align(align_to(layout, PAGE_SIZE)).size
\* PageAllocator::alloc, the kernel answering k: [h, ptr]
PageAlloc(H, layout, k) ==
  [h |-> mmap(H, PageAllocLen(layout), k), ptr |-> k]
\* PageAllocator::dealloc
PageDealloc(H, ptr, layout) == munmap(H, ptr, PageAllocLen(layout))
\* PageAllocator::realloc: old_aligned_size.size() and aligned_layout.size()
OldAlignedSize(layout) == pad_to_align(align_to(layout, PAGE_SIZE)).size
NewAlignedSize(layout, new_size) ==
  pad_to_align(Layout(new_size, Max(layout.align, PAGE_SIZE))).size
\* the length of the speculative extension realloc asks mmap for at
\* old_addr_end, 0 when it asks for none
ReallocExtLen(layout, new_size) ==
  IF new_size <= OldAlignedSize(layout) THEN 0
  ELSE NewAlignedSize(layout, new_size) - OldAlignedSize(layout)
\* realloc that leaves a misplaced extension mapped
ReallocTry_kept(H, ptr, layout, new_size, k1) ==
  LET ext == ReallocExtLen(layout, new_size)
  IN  IF ext = 0 THEN H ELSE mmap(H, ext, k1)
\* realloc up to the test `appended_addr == old_addr_end`, the kernel
\* answering k1 to the hinted mmap; the extension is unmapped when misplaced
ReallocTry(H, ptr, layout, new_size, k1) ==
  LET ext == ReallocExtLen(layout, new_size)
      appended == mmap(H, ext, k1)
  IN  IF ext = 0 THEN H
      ELSE IF k1 = ptr + OldAlignedSize(layout) THEN appended
      ELSE munmap(appended, k1, ext)
\* the length of the fresh mapping realloc then asks for, 0 when none
ReallocMoveLen(ptr, layout, new_size, k1) ==
  IF ReallocExtLen(layout, new_size) = 0 \/ k1 = ptr + OldAlignedSize(layout) THEN 0
  ELSE PageAllocLen(Layout(NewAlignedSize(layout, new_size),
                           Max(layout.align, PAGE_SIZE)))
\* PageAllocator::realloc, the kernel answering k1 then k2: [h, ptr]
PageRealloc(H, ptr, layout, new_size, k1, k2) ==
  LET old_aligned_size == OldAlignedSize(layout)
      aligned_size == NewAlignedSize(layout, new_size)
      copy_len == Min(layout.size, new_size)
      old_addr_end == ptr + old_aligned_size
  IN  IF new_size <= old_aligned_size
      THEN LET new_addr_end == ptr + aligned_size
           IN  [h |-> IF old_addr_end > new_addr_end
                      THEN munmap(H, new_addr_end, old_aligned_size - aligned_size)
                      ELSE H,
                ptr |-> ptr]
      ELSE IF k1 = old_addr_end
      THEN [h |-> ReallocTry(H, ptr, layout, new_size, k1), ptr |-> ptr]
      ELSE LET got == PageAlloc(ReallocTry(H, ptr, layout, new_size, k1),
                                Layout(aligned_size, Max(layout.align, PAGE_SIZE)), k2)
               copied == copy_nonoverlapping(got.h, ptr, got.ptr, copy_len)
           IN  [h |-> IF copied.fault THEN copied
                      ELSE munmap(copied, ptr, old_aligned_size),
                ptr |-> got.ptr]

(***************************************************************************)
(* Slot, FreeList and Bin                                                  *)
(***************************************************************************)
\* Bin::new
NewBin == [free_head |-> NULL, page |-> [ptr |-> NULL, len |-> 0], pages |-> <<>>]
\* Slot::next through FreeList::get_next: read the link of the slot at p
get_next(H, p) == LoadPtr(H.mem, p)
\* Slot::set_next: write the link of the slot at p
set_next(H, p, next) ==
  IF ~Accessible(H, p, PtrSize) THEN [H EXCEPT !.fault = TRUE]
  ELSE [H EXCEPT !.mem = StoreBytes(@, p, PtrBytes(next))]

\* the length add_one asks the kernel for, 0 when it bumps
AddOneMapLen(H, c) ==
  LET page == H.bins[c].page
  IN  IF page.ptr # NULL /\ page.len >= size_of(c) THEN 0
      ELSE PageAllocLen(Layout(RSB_CHUNK_SIZE, align_of(c)))
\* add_one that hands out the bump cell without advancing the bump pointer
add_one_stuck(H, c, k) ==
  LET slot_size == size_of(c)
      page == H.bins[c].page
  IN  IF page.ptr # NULL /\ page.len >= slot_size
      THEN [h |-> H, ptr |-> page.ptr]
      ELSE LET layout == Layout(RSB_CHUNK_SIZE, align_of(c))
               got == PageAlloc(H, layout, k)
           IN  [h |-> [got.h EXCEPT
                         !.bins[c].pages = Append(@, [ptr |-> got.ptr, layout |-> layout]),
                         !.bins[c].page = [ptr |-> got.ptr + slot_size,
                                           len |-> RSB_CHUNK_SIZE - slot_size]],
                ptr |-> got.ptr]
\* add_one that records a new chunk at the front of the chunks list
add_one_prepended(H, c, k) ==
  LET slot_size == size_of(c)
      page == H.bins[c].page
  IN  IF page.ptr # NULL /\ page.len >= slot_size
      THEN [h |-> [H EXCEPT !.bins[c].page =
                      [ptr |-> page.ptr + slot_size, len |-> page.len - slot_size]],
            ptr |-> page.ptr]
      ELSE LET layout == Layout(RSB_CHUNK_SIZE, align_of(c))
               got == PageAlloc(H, layout, k)
           IN  [h |-> [got.h EXCEPT
                         !.bins[c].pages = <<[ptr |-> got.ptr, layout |-> layout]>> \o @,
                         !.bins[c].page = [ptr |-> got.ptr + slot_size,
                                           len |-> RSB_CHUNK_SIZE - slot_size]],
                ptr |-> got.ptr]
\* Bin::add_one, the kernel answering k: [h, ptr]
add_one(H, c, k) ==
  LET slot_size == size_of(c)
      page == H.bins[c].page
  IN  IF page.ptr # NULL /\ page.len >= slot_size
      THEN [h |-> [H EXCEPT !.bins[c].page =
                      [ptr |-> page.ptr + slot_size, len |-> page.len - slot_size]],
            ptr |-> page.ptr]
      ELSE LET layout == Layout(RSB_CHUNK_SIZE, align_of(c))
               got == PageAlloc(H, layout, k)
           IN  [h |-> [got.h EXCEPT
                         !.bins[c].pages = Append(@, [ptr |-> got.ptr, layout |-> layout]),
                         !.bins[c].page = [ptr |-> got.ptr + slot_size,
                                           len |-> RSB_CHUNK_SIZE - slot_size]],
                ptr |-> got.ptr]
\* a pop that forgets the popped cell's link and empties the free list
pop_free_drop(H, c) ==
  [h |-> [H EXCEPT !.bins[c].free_head = NULL], ptr |-> H.bins[c].free_head]
\* the free-list branch of Bin::alloc: pop the head
pop_free(H, c) ==
  LET head == H.bins[c].free_head
  IN  IF ~Accessible(H, head, PtrSize)
      THEN [h |-> [H EXCEPT !.fault = TRUE], ptr |-> head]
      ELSE [h |-> [H EXCEPT !.bins[c].free_head = get_next(H, head)], ptr |-> head]
\* Bin::alloc: [h, ptr]
BinAlloc(H, c, k) ==
  IF H.bins[c].free_head # NULL THEN pop_free(H, c) ELSE add_one(H, c, k)
\* a push that installs the cell as head without linking the old head
BinDealloc_unlinked(H, c, ptr) ==
  LET linked == set_next(H, ptr, NULL)
  IN  IF linked.fault THEN linked
      ELSE [linked EXCEPT !.bins[c].free_head = ptr]
\* Bin::dealloc that also gives the cell's bytes back to the bump slice
BinDealloc_rewound(H, c, ptr) ==
  LET linked == set_next(H, ptr, H.bins[c].free_head)
  IN  IF linked.fault THEN linked
      ELSE [linked EXCEPT !.bins[c].free_head = ptr,
                          !.bins[c].page.len = @ + size_of(c)]
\* Bin::dealloc
BinDealloc(H, c, ptr) ==
  LET linked == set_next(H, ptr, H.bins[c].free_head)
  IN  IF linked.fault THEN linked
      ELSE [linked EXCEPT !.bins[c].free_head = ptr]

(***************************************************************************)
(* RSBMalloc (impl Allocator)                                              *)
(***************************************************************************)
\* the length allocate asks the kernel for, 0 when it maps nothing
AllocMapLen(H, layout) ==
  LET c == AllocBinOf(pad_to_align(layout).size)
  IN  IF layout.align > MAX_ALIGN THEN 0
      ELSE IF c = HUGE THEN PageAllocLen(layout)
      ELSE IF H.bins[c].free_head # NULL THEN 0
      ELSE AddOneMapLen(H, c)
\* the end of RSBMalloc::allocate: NonNull::new(ptr).ok_or(AllocError) and
\* the slice of the padded size
AllocResult(h, ptr, layout) ==
  [h |-> h, ok |-> ptr # NULL, ptr |-> ptr, len |-> pad_to_align(layout).size]
\* allocate without the test of layout.align()
allocate_any_align(H, layout, k) ==
  LET c == AllocBinOf(pad_to_align(layout).size)
      got == IF c = HUGE THEN PageAlloc(H, layout, k) ELSE BinAlloc(H, c, k)
  IN  AllocResult(got.h, got.ptr, layout)
\* RSBMalloc::allocate: [h, ok, ptr, len], ok = FALSE for Err(AllocError)
allocate(H, layout, k) ==
  IF layout.align > MAX_ALIGN
  THEN [h |-> H, ok |-> FALSE, ptr |-> NULL, len |-> 0]
  ELSE LET c == AllocBinOf(pad_to_align(layout).size)
           got == IF c = HUGE THEN PageAlloc(H, layout, k) ELSE BinAlloc(H, c, k)
       IN  AllocResult(got.h, got.ptr, layout)
\* RSBMalloc::deallocate
deallocate(H, ptr, layout) ==
  LET size == pad_to_align(layout).size
      c == DeallocBinOf(size)
  IN  IF c = HUGE THEN PageDealloc(H, ptr, layout) ELSE BinDealloc(H, c, ptr)
\* allocate_zeroed without the write_bytes
allocate_zeroed_unwritten(H, layout, k) == allocate(H, layout, k)
\* RSBMalloc::allocate_zeroed
allocate_zeroed(H, layout, k) ==
  LET r == allocate(H, layout, k)
  IN  IF ~r.ok THEN r ELSE [r EXCEPT !.h = write_bytes(r.h, r.ptr, r.len)]
\* the tail with the old block deallocated before the copy
FreeAndCopy(r, ptr, old_layout, len) ==
  IF ~r.ok \/ r.h.fault THEN r
  ELSE [r EXCEPT !.h = copy_nonoverlapping(deallocate(r.h, ptr, old_layout),
                                           ptr, r.ptr, len)]
\* the tail of grow, grow_zeroed and shrink: copy len bytes of the old block
\* into the new block r, then deallocate the old block
CopyAndFree(r, ptr, old_layout, len) ==
  LET copied == copy_nonoverlapping(r.h, ptr, r.ptr, len)
  IN  IF ~r.ok \/ r.h.fault THEN r
      ELSE IF copied.fault THEN [r EXCEPT !.h = copied]
      ELSE [r EXCEPT !.h = deallocate(copied, ptr, old_layout)]
\* the first mmap of grow: [hint, len], len = 0 when it maps nothing
GrowMap1(H, ptr, old_layout, new_layout) ==
  IF new_layout.align > MAX_ALIGN THEN [hint |-> NULL, len |-> 0]
  ELSE IF pad_to_align(old_layout).size > RSB_CHUNK_SIZE
  THEN [hint |-> ptr + OldAlignedSize(old_layout),
        len |-> ReallocExtLen(old_layout, new_layout.size)]
  ELSE [hint |-> NULL, len |-> AllocMapLen(H, new_layout)]
\* the heap at the second mmap of grow and the length it asks for
GrowMid(H, ptr, old_layout, new_layout, k1) ==
  IF new_layout.align <= MAX_ALIGN /\ pad_to_align(old_layout).size > RSB_CHUNK_SIZE
  THEN ReallocTry(H, ptr, old_layout, new_layout.size, k1)
  ELSE H
GrowMap2Len(ptr, old_layout, new_layout, k1) ==
  IF new_layout.align <= MAX_ALIGN /\ pad_to_align(old_layout).size > RSB_CHUNK_SIZE
  THEN ReallocMoveLen(ptr, old_layout, new_layout.size, k1)
  ELSE 0
\* RSBMalloc::grow, the kernel answering k1 then k2
grow(H, ptr, old_layout, new_layout, k1, k2) ==
  IF new_layout.align > MAX_ALIGN
  THEN [h |-> H, ok |-> FALSE, ptr |-> NULL, len |-> 0]
  ELSE IF pad_to_align(old_layout).size > RSB_CHUNK_SIZE
  THEN LET got == PageRealloc(H, ptr, old_layout, new_layout.size, k1, k2)
       IN  [h |-> got.h, ok |-> got.ptr # NULL, ptr |-> got.ptr,
            len |-> new_layout.size]
  ELSE CopyAndFree(allocate(H, new_layout, k1), ptr, old_layout, old_layout.size)
\* RSBMalloc::grow_zeroed
grow_zeroed(H, ptr, old_layout, new_layout, k) ==
  IF new_layout.align > MAX_ALIGN
  THEN [h |-> H, ok |-> FALSE, ptr |-> NULL, len |-> 0]
  ELSE CopyAndFree(allocate_zeroed(H, new_layout, k), ptr, old_layout, old_layout.size)
\* shrink with the old block deallocated before the copy
shrink_freed_first(H, ptr, old_layout, new_layout, k) ==
  FreeAndCopy(allocate(H, new_layout, k), ptr, old_layout, new_layout.size)
\* RSBMalloc::shrink
shrink(H, ptr, old_layout, new_layout, k) ==
  CopyAndFree(allocate(H, new_layout, k), ptr, old_layout, new_layout.size)

(***************************************************************************)
(* free_all: the chunks of every bin go back to the kernel.                *)
(***************************************************************************)
RECURSIVE drain(_, _)
\* for (page, layout) in ps.drain(..) { pages.dealloc(page, layout) }
drain(H, ps) ==
  IF ps = <<>> THEN H
  ELSE drain(PageDealloc(H, Head(ps).ptr, Head(ps).layout), Tail(ps))
\* Bin::free_all without `*fh = FreeList::null()`
BinFreeAll_headkept(H, c) ==
  drain([H EXCEPT !.bins[c] = [NewBin EXCEPT !.free_head = H.bins[c].free_head]],
        H.bins[c].pages)
\* Bin::free_all
BinFreeAll(H, c) == drain([H EXCEPT !.bins[c] = NewBin], H.bins[c].pages)
RECURSIVE BinsFreeAll(_, _)
\* Bins::free_all from bin c on, in the order of the fields
BinsFreeAll(H, c) ==
  IF c \notin Classes THEN H ELSE BinsFreeAll(BinFreeAll(H, c), c + 1)
\* RSBMalloc::free_all
free_all(H) == BinsFreeAll(H, 1)

(***************************************************************************)
(* The protection domain: a kernel label, the heap bound to it and the     *)
(* handles that share them.  A domain D is [label, handles, pkru, frames]: *)
(* pkru[t] is thread t's access rights for the label and frames[t] the     *)
(* rights its running with_level calls have saved, innermost last.  For    *)
(* the properties D also records: asked[t], the level thread t asked for   *)
(* last and below it the levels its running with_level calls return to;   *)
(* calls[t], the level t had right before each running with_level call;    *)
(* and ev, the last thing a thread did with the domain; dtor, the step the  *)
(* destructor is at (0 when it is not running); how often the chunks were  *)
(* reclaimed and the label released; how many handles were ever made; and  *)
(* taken, every chunk the heap ever recorded.                              *)
(***************************************************************************)
AccessLevels == {"DenyAll", "ReadOnly", "ReadWrite"}
\* a mapping that leaves writes disabled at ReadWrite
RightsOf_shut(level) ==
  CASE level = "DenyAll" -> PKEY_DISABLE_ACCESS
    [] level = "ReadOnly" -> PKEY_DISABLE_WRITE
    [] level = "ReadWrite" -> PKEY_DISABLE_WRITE
\* a mapping that leaves writes enabled at ReadOnly
RightsOf_open(level) ==
  CASE level = "DenyAll" -> PKEY_DISABLE_ACCESS
    [] level = "ReadOnly" -> 0
    [] level = "ReadWrite" -> 0
\* access level to the rights pkey_set takes
RightsOf(level) ==
  CASE level = "DenyAll" -> PKEY_DISABLE_ACCESS
    [] level = "ReadOnly" -> PKEY_DISABLE_WRITE
    [] level = "ReadWrite" -> 0
\* the rights pkey_get returns to the access level
LevelOf(rights) ==
  IF rights % 2 = PKEY_DISABLE_ACCESS THEN "DenyAll"
  ELSE IF rights = PKEY_DISABLE_WRITE THEN "ReadOnly"
  ELSE "ReadWrite"
\* what the processor lets a thread with these rights do to a tagged page
MayLoad(rights) == rights % 2 # PKEY_DISABLE_ACCESS
MayStore(rights) == rights = 0
\* a domain right after create, the threads' rights for the label being pkru
NoEvent == [op |-> "none", by |-> 0, ptr |-> NULL, want |-> "none",
            level |-> "none", before |-> "none", ok |-> TRUE]
NewDomain(pkru) ==
  [label |-> "allocated", handles |-> 1, pkru |-> pkru,
   frames |-> [t \in DOMAIN pkru |-> <<>>],
   asked |-> [t \in DOMAIN pkru |-> <<LevelOf(pkru[t])>>],
   calls |-> [t \in DOMAIN pkru |-> <<>>],
   ev |-> NoEvent,
   dtor |-> 0, reclaimed |-> 0, released |-> 0, made |-> 1, taken |-> {}]
\* set_level(level) by thread t
\* a destructor that returns the label before it reclaims the chunks
dtor_order_reversed == <<"release", "reclaim">>
\* the destructor of the shared state: reclaim every chunk, then return the
\* label to the kernel
dtor_order == <<"reclaim", "release">>
\* a drop that runs the destructor whether or not other handles exist
drop_handle_eager(D) == [D EXCEPT !.handles = @ - 1, !.dtor = 1]
\* a handle is dropped: the last one starts the destructor
drop_handle(D) ==
  [D EXCEPT !.handles = @ - 1,
            !.dtor = IF D.handles - 1 = 0 THEN 1 ELSE @]
\* a handle is cloned
clone_handle(D) == [D EXCEPT !.handles = @ + 1, !.made = @ + 1]
\* set_level(level) by thread t
set_level(D, t, level) == [D EXCEPT !.pkru[t] = RightsOf(level)]
\* with_level(level, f) by thread t up to the call of f: save the current
\* level, install level, clone the handle for f
with_level_enter(D, t, level) ==
  clone_handle([D EXCEPT !.frames[t] = Append(@, D.pkru[t]),
                         !.pkru[t] = RightsOf(level)])
\* with_level that drops f's handle and leaves the level as f left it
with_level_exit_unrestored(D, t) ==
  drop_handle([D EXCEPT !.frames[t] = SubSeq(@, 1, Len(@) - 1)])
\* with_level after f returned or unwound: f's handle is dropped and the
\* saved level restored
with_level_exit(D, t) ==
  drop_handle([D EXCEPT !.frames[t] = SubSeq(@, 1, Len(@) - 1),
                        !.pkru[t] = D.frames[t][Len(D.frames[t])]])

(***************************************************************************)
(* State                                                                   *)
(***************************************************************************)
VARIABLES
  bins,      \* RSBMalloc.bins: class -> [free_head, page, pages]
  mapped,    \* the pages the kernel has mapped
  mem,       \* address -> non-zero byte
  fault,     \* the process took SIGSEGV
  enomem,    \* how many more mappings the kernel may refuse
  live,      \* bag of the blocks callers hold: [ptr, layout, owner]
  hist,      \* the cells vended and returned so far: [op, bin, ptr]
  last,      \* the last facade call and its result
  workload,  \* the layouts the callers of this run use
  locks,     \* the spin::Mutex of each bin field: class -> field -> holder
  th,        \* each thread's position inside Bin::alloc / Bin::dealloc
  dom        \* the protection domain that owns the heap

vars == <<bins, mapped, mem, fault, enomem, live, hist, last, workload, locks, th,
          dom>>

Threads == 1..NumThreads
\* a thread outside every call
Idle == [pc |-> "idle", layout |-> Layout(0, 1), bin |-> HUGE, ptr |-> NULL,
         head |-> NULL, page |-> [ptr |-> NULL, len |-> 0], held |-> 0]
AllIdle == \A t \in Threads : th[t].pc = "idle"

Heap == [bins |-> bins, mapped |-> mapped, mem |-> mem, fault |-> fault,
         enomem |-> enomem]
Install(H) ==
  /\ bins' = H.bins
  /\ mapped' = H.mapped
  /\ mem' = H.mem
  /\ fault' = H.fault
  /\ enomem' = H.enomem

Block(ptr, layout, owner) == [ptr |-> ptr, layout |-> layout, owner |-> owner]
\* a cell vended ("alloc") or returned ("dealloc") by bin, and the bin's
\* free head, bump pointer and number of chunks right after it
Event(op, bin, ptr, H, t) ==
  [op |-> op, bin |-> bin, ptr |-> ptr, by |-> t,
   head |-> IF bin = HUGE THEN NULL ELSE H.bins[bin].free_head,
   bump |-> IF bin = HUGE THEN NULL ELSE H.bins[bin].page.ptr,
   nchunks |-> IF bin = HUGE THEN 0 ELSE Len(H.bins[bin].pages)]
Held == BagToSet(live)
\* the non-zero bytes of the len bytes at ptr: offset -> byte
Contents(m, ptr, len) ==
  [off \in {a - ptr : a \in {x \in DOMAIN m : x >= ptr /\ x < ptr + len}}
     |-> m[ptr + off]]
\* snap: what the old block held when the call was made; dirty: the returned
\* block held non-zero bytes when the call was made; appended: what the
\* kernel answered to the hinted mmap of PageAllocator::realloc
NoCall == [n |-> 0, op |-> "none", layout |-> Layout(0, 1), ok |-> TRUE,
           ptr |-> NULL, len |-> 0, old |-> NULL, old_layout |-> Layout(0, 1),
           snap |-> Contents(<<>>, NULL, 0), dirty |-> FALSE, appended |-> NULL]

\* a heap on the default label, as RSBMalloc::new(0) makes it: every thread
\* may read and write its pages and nobody releases the label
NoDomain == NewDomain([t \in Threads |-> 0])

\* RSBMalloc::new, in a fresh address space
InitHeap ==
  /\ bins = [c \in Classes |-> NewBin]
  /\ mapped = {}
  /\ mem = <<>>
  /\ fault = FALSE
  /\ live = EmptyBag
  /\ hist = <<>>
  /\ last = NoCall
  /\ locks = [c \in Classes |-> [free_head |-> NoOwner, page |-> NoOwner,
                                  pages |-> NoOwner]]
  /\ th = [t \in Threads |-> Idle]

\* allocate(layout) or allocate_zeroed(layout) returns r to caller t
AllocReturn(t, op, layout, res) ==
  \E r \in {res} :
    /\ Install(r.h)
    /\ live' = IF r.ok THEN live (+) SetToBag({Block(r.ptr, layout, t)}) ELSE live
    /\ hist' = IF r.ok
               THEN Append(hist, Event("alloc", AllocBinOf(pad_to_align(layout).size),
                                       r.ptr, r.h, t))
               ELSE hist
    /\ last' = [NoCall EXCEPT !.n = last.n + 1, !.op = op,
                  !.layout = layout, !.ok = r.ok, !.ptr = r.ptr, !.len = r.len,
                  !.dirty = r.ok /\ DOMAIN Contents(mem, r.ptr, r.len) # {}]
\* deallocate(b.ptr, b.layout) returns to caller t, leaving the heap h
DeallocReturn(t, b, left) ==
  \E h \in {left} :
    /\ Install(h)
    /\ hist' = Append(hist, Event("dealloc", DeallocBinOf(pad_to_align(b.layout).size),
                                  b.ptr, h, t))
    /\ last' = [NoCall EXCEPT !.n = last.n + 1, !.op = "deallocate",
                  !.layout = b.layout, !.old = b.ptr, !.old_layout = b.layout]

\* the facade call allocate(layout) of caller t
Allocate(t, layout) ==
  /\ ~fault /\ AllIdle
  /\ BagCardinality(live) < MaxLive
  /\ \E k \in MmapAnswers(Heap, NULL, AllocMapLen(Heap, layout)) :
       AllocReturn(t, "allocate", layout, allocate(Heap, layout, k))
  /\ UNCHANGED <<workload, locks, th, dom>>

\* the facade call deallocate(ptr, layout) of caller t on a block it holds
Deallocate(t, b) ==
  /\ ~fault /\ AllIdle
  /\ b \in Held /\ b.owner = t
  /\ DeallocReturn(t, b, deallocate(Heap, b.ptr, b.layout))
  /\ live' = live (-) SetToBag({b})
  /\ UNCHANGED <<workload, locks, th, dom>>

\* the facade call allocate_zeroed(layout) of caller t
AllocateZeroed(t, layout) ==
  /\ ~fault /\ AllIdle
  /\ BagCardinality(live) < MaxLive
  /\ \E k \in MmapAnswers(Heap, NULL, AllocMapLen(Heap, layout)) :
       AllocReturn(t, "allocate_zeroed", layout, allocate_zeroed(Heap, layout, k))
  /\ UNCHANGED <<workload, locks, th, dom>>

\* grow or grow_zeroed of block b to layout returns r to caller t; mid is the
\* heap when the new block had been allocated and the old one not yet freed
GrowReturn(t, op, b, layout, mid, r) ==
  /\ Install(r.h)
  /\ live' = IF r.ok THEN (live (-) SetToBag({b})) (+) SetToBag({Block(r.ptr, layout, t)})
             ELSE live
  /\ hist' = IF r.ok
             THEN hist \o
                  << Event("alloc", AllocBinOf(pad_to_align(layout).size), r.ptr, mid, t),
                     Event("dealloc", DeallocBinOf(pad_to_align(b.layout).size),
                           b.ptr, r.h, t) >>
             ELSE hist
  /\ last' = [NoCall EXCEPT !.n = last.n + 1, !.op = op, !.layout = layout,
                !.ok = r.ok, !.ptr = r.ptr, !.len = r.len,
                !.old = b.ptr, !.old_layout = b.layout,
                !.snap = Contents(mem, b.ptr, b.layout.size),
                !.dirty = r.ok /\ DOMAIN Contents(mem, r.ptr, r.len) # {}]

\* the facade call grow(ptr, old_layout, layout) of caller t on a block it holds
Grow(t, b, layout) ==
  /\ ~fault /\ AllIdle
  /\ b \in Held /\ b.owner = t
  /\ layout.size >= b.layout.size
  /\ LET m1 == GrowMap1(Heap, b.ptr, b.layout, layout)
     IN  \E k1 \in MmapAnswers(Heap, m1.hint, m1.len) :
           \E k2 \in MmapAnswers(GrowMid(Heap, b.ptr, b.layout, layout, k1), NULL,
                                  GrowMap2Len(b.ptr, b.layout, layout, k1)) :
             GrowReturn(t, "grow", b, layout, allocate(Heap, layout, k1).h,
                        grow(Heap, b.ptr, b.layout, layout, k1, k2))
  /\ UNCHANGED <<workload, locks, th, dom>>

\* the facade call grow_zeroed(ptr, old_layout, layout) of caller t
GrowZeroed(t, b, layout) ==
  /\ ~fault /\ AllIdle
  /\ b \in Held /\ b.owner = t
  /\ layout.size >= b.layout.size
  /\ \E k \in MmapAnswers(Heap, NULL, IF layout.align > MAX_ALIGN THEN 0
                                       ELSE AllocMapLen(Heap, layout)) :
       GrowReturn(t, "grow_zeroed", b, layout, allocate_zeroed(Heap, layout, k).h,
                  grow_zeroed(Heap, b.ptr, b.layout, layout, k))
  /\ UNCHANGED <<workload, locks, th, dom>>

\* the facade call shrink(ptr, old_layout, layout) of caller t
Shrink(t, b, layout) ==
  /\ ~fault /\ AllIdle
  /\ b \in Held /\ b.owner = t
  /\ layout.size <= b.layout.size
  /\ \E k \in MmapAnswers(Heap, NULL, AllocMapLen(Heap, layout)) :
       GrowReturn(t, "shrink", b, layout, allocate(Heap, layout, k).h,
                  shrink(Heap, b.ptr, b.layout, layout, k))
  /\ UNCHANGED <<workload, locks, th, dom>>

\* caller t stores the non-zero byte v at the offsets offs of a block it holds
UserWriteAt(t, b, offs, v) ==
  /\ ~fault /\ AllIdle
  /\ b \in Held /\ b.owner = t
  /\ offs # {} /\ \A off \in offs : 0 <= off /\ off < b.layout.size
  /\ IF Accessible(Heap, b.ptr, b.layout.size)
     THEN /\ mem' = [a \in DOMAIN mem \cup {b.ptr + off : off \in offs} |->
                      IF a - b.ptr \in offs THEN v ELSE mem[a]]
          /\ fault' = fault
     ELSE /\ mem' = mem
          /\ fault' = TRUE
  /\ last' = [NoCall EXCEPT !.n = last.n + 1, !.op = "write",
                !.old = b.ptr, !.old_layout = b.layout]
  /\ UNCHANGED <<bins, mapped, enomem, live, hist, workload, locks, th, dom>>

\* caller t stores byte v in the first and in the last byte of a block it holds
UserWrite(t, b, v) ==
  /\ ~fault /\ AllIdle
  /\ b \in Held /\ b.owner = t
  /\ b.layout.size > 0
  /\ IF Accessible(Heap, b.ptr, b.layout.size)
     THEN /\ mem' = StoreBytes(StoreBytes(mem, b.ptr, <<v>>),
                               b.ptr + b.layout.size - 1, <<v>>)
          /\ fault' = fault
     ELSE /\ mem' = mem
          /\ fault' = TRUE
  /\ last' = [NoCall EXCEPT !.n = last.n + 1, !.op = "write",
                !.old = b.ptr, !.old_layout = b.layout]
  /\ UNCHANGED <<bins, mapped, enomem, live, hist, workload, locks, th, dom>>

(***************************************************************************)
(* SpecBin: one caller allocating and deallocating cells of one bin.       *)
(***************************************************************************)
\* one layout per size class
BinLayouts == {Layout(SlotLen[c], 1) : c \in Classes}
InitBin ==
  /\ InitHeap
  /\ dom = NoDomain
  /\ enomem = 0
  /\ workload \in {{l} : l \in BinLayouts}
BinAllocate == \E l \in workload : last.n < MaxBinOps /\ Allocate(1, l)
BinDeallocate == \E b \in Held : last.n < MaxBinOps /\ Deallocate(1, b)
NextBin == BinAllocate \/ BinDeallocate
SpecBin == InitBin /\ [][NextBin]_vars

(***************************************************************************)
(* Spec: one caller using the whole Allocator interface on blocks of two   *)
(* layouts, writing into the blocks it holds.                              *)
(***************************************************************************)
UserBytes == {165}
HeapWorkloads ==
  { {Layout(8, 8), Layout(16, 2 * MAX_ALIGN)},
    {Layout(RSB_CHUNK_SIZE \div 2, 1), Layout(RSB_CHUNK_SIZE + PAGE_SIZE + 1, 1)},
    {Layout(400, 4), Layout(80000, 4)},
    {Layout(70000, 1), Layout(80000, 1)},
    {Layout(5, 1), Layout(8, 1)},
    {Layout(24, 8), Layout(40, 8)} }
Init ==
  /\ InitHeap
  /\ dom = NoDomain
  /\ enomem = 0
  /\ workload \in HeapWorkloads
HeapAllocate == \E l \in workload : last.n < MaxOps /\ Allocate(1, l)
HeapAllocateZeroed == \E l \in workload : last.n < MaxOps /\ AllocateZeroed(1, l)
HeapDeallocate == \E b \in Held : last.n < MaxOps /\ Deallocate(1, b)
HeapGrow == \E b \in Held, l \in workload : last.n < MaxOps /\ Grow(1, b, l)
HeapGrowZeroed == \E b \in Held, l \in workload : last.n < MaxOps /\ GrowZeroed(1, b, l)
HeapWrite == \E b \in Held, v \in UserBytes : last.n < MaxOps /\ UserWrite(1, b, v)
Next ==
  \/ HeapAllocate
  \/ HeapAllocateZeroed
  \/ HeapDeallocate
  \/ HeapGrow
  \/ HeapGrowZeroed
  \/ HeapWrite
Spec == Init /\ [][Next]_vars

(***************************************************************************)
(* SpecFrame: one caller allocating, writing and deallocating cells of two *)
(* bins.                                                                   *)
(***************************************************************************)
FrameWorkloads ==
  { {Layout(8, 8), Layout(24, 8)},
    {Layout(4, 1), Layout(RSB_CHUNK_SIZE, 1)},
    {Layout(5, 1), Layout(400, 4)} }
InitFrame ==
  /\ InitHeap
  /\ dom = NoDomain
  /\ enomem = 0
  /\ workload \in FrameWorkloads
FrameAllocate == \E l \in workload : last.n < MaxFrameOps /\ Allocate(1, l)
FrameDeallocate == \E b \in Held : last.n < MaxFrameOps /\ Deallocate(1, b)
FrameWrite == \E b \in Held, v \in UserBytes : last.n < MaxFrameOps /\ UserWrite(1, b, v)
NextFrame == FrameAllocate \/ FrameDeallocate \/ FrameWrite
SpecFrame == InitFrame /\ [][NextFrame]_vars

(***************************************************************************)
(* SpecShrink: one caller allocating, writing, growing and shrinking       *)
(* blocks, among them the 400 -> 80000 -> 200 bytes of test_allocator.     *)
(***************************************************************************)
ShrinkWorkloads ==
  { {Layout(400, 4), Layout(80000, 4), Layout(200, 4)},
    {Layout(80000, 1), Layout(70000, 1)},
    {Layout(40, 8), Layout(24, 8)},
    {Layout(8, 1), Layout(5, 1)} }
InitShrink ==
  /\ InitHeap
  /\ dom = NoDomain
  /\ enomem = 0
  /\ workload \in ShrinkWorkloads
ShrinkAllocate == \E l \in workload : last.n < MaxShrinkOps /\ Allocate(1, l)
\* the caller stores the last byte of every prefix it may shrink the block to
ShrinkWrite == \E b \in Held, v \in UserBytes :
                 /\ last.n < MaxShrinkOps
                 /\ UserWriteAt(1, b, {l.size - 1 : l \in {w \in workload :
                                                          w.size <= b.layout.size}}, v)
ShrinkGrow == \E b \in Held, l \in workload : last.n < MaxShrinkOps /\ Grow(1, b, l)
ShrinkShrink == \E b \in Held, l \in workload : last.n < MaxShrinkOps /\ Shrink(1, b, l)
NextShrink == ShrinkAllocate \/ ShrinkWrite \/ ShrinkGrow \/ ShrinkShrink
SpecShrink == InitShrink /\ [][NextShrink]_vars

(***************************************************************************)
(* Calls on a protection domain.  The facade's deallocate is three steps:  *)
(* with_level(ReadWrite, ..) entered, the heap's deallocate, with_level    *)
(* left.                                                                   *)
(***************************************************************************)
\* the chunks the bins B record
Chunks(B) == UNION {{B[c].pages[i] : i \in DOMAIN B[c].pages} : c \in Classes}
\* thread t is not inside a facade call, and the domain is there to be used
DomReady(t) ==
  /\ ~fault /\ th[t].pc = "idle"
  /\ dom.label = "allocated" /\ dom.handles >= 1
DomCall(op) == last' = [NoCall EXCEPT !.n = last.n + 1, !.op = op]
\* what thread t did, the level it has afterwards and whether it went through
DomEvent(op, t, ptr, want, D, before, ok) ==
  [op |-> op, by |-> t, ptr |-> ptr, want |-> want,
   level |-> LevelOf(D.pkru[t]), before |-> before, ok |-> ok]
Top(s) == s[Len(s)]
Pop(s) == SubSeq(s, 1, Len(s) - 1)
\* ProtectionDomain::create(level) by thread 1 on a fresh heap; the kernel
\* starts every other thread with access to the new label disabled
DomCreate(level) ==
  /\ InitHeap
  /\ enomem = 0
  /\ dom = NewDomain([t \in Threads |-> IF t = 1 THEN RightsOf(level)
                                        ELSE PKEY_DISABLE_ACCESS])

\* domain.set_level(level) by thread t
DomSetLevel(t, level) ==
  /\ DomReady(t)
  /\ LET D == set_level(dom, t, level)
     IN  dom' = [D EXCEPT !.asked[t] = Append(Pop(@), level),
                          !.ev = DomEvent("set_level", t, NULL, level, D,
                                          LevelOf(dom.pkru[t]), TRUE)]
  /\ DomCall("set_level")
  /\ UNCHANGED <<bins, mapped, mem, fault, enomem, live, hist, workload, locks, th>>
\* with_level(level, ..) entered by thread t, for f or for the facade's
\* deallocate of the block at ptr
DomBracketEnter(t, level, ptr) ==
  LET D == with_level_enter(dom, t, level)
  IN  dom' = [D EXCEPT !.asked[t] = Append(@, level),
                       !.calls[t] = Append(@, LevelOf(dom.pkru[t])),
                       !.ev = DomEvent("enter", t, ptr, level, D,
                                       LevelOf(dom.pkru[t]), TRUE)]
\* with_level left by thread t
DomBracketExit(t, how, ptr) ==
  LET D == with_level_exit(dom, t)
  IN  dom' = [D EXCEPT !.asked[t] = Pop(@),
                       !.calls[t] = Pop(@),
                       !.ev = DomEvent("exit", t, ptr, how, D, Top(dom.calls[t]), TRUE)]
\* domain.with_level(level, f) by thread t, up to the call of f
DomWithLevelEnter(t, level) ==
  /\ DomReady(t)
  /\ Len(dom.frames[t]) < MaxNest
  /\ DomBracketEnter(t, level, NULL)
  /\ DomCall("with_level")
  /\ UNCHANGED <<bins, mapped, mem, fault, enomem, live, hist, workload, locks, th>>
\* f returns or panics ("return", "panic") and with_level is left
DomWithLevelExit(t, how) ==
  /\ DomReady(t)
  /\ dom.frames[t] # <<>>
  /\ DomBracketExit(t, how, NULL)
  /\ UNCHANGED <<bins, mapped, mem, fault, enomem, live, hist, last, workload, locks, th>>

\* the level the facade's deallocate asks with_level for
DeallocLevel(D, t) == "ReadWrite"
\* the rights thread t has while the closure of pages.with_pkey runs
with_pkey(D, t) == [D EXCEPT !.pkru[t] = RightsOf("ReadWrite")]
\* domain.deallocate(ptr, layout) by thread t: with_level(ReadWrite, ..) entered
DomDeallocEnter(t, b) ==
  /\ DomReady(t)
  /\ b \in Held /\ b.owner = t
  /\ live' = live (-) SetToBag({b})
  /\ DomBracketEnter(t, DeallocLevel(dom, t), b.ptr)
  /\ th' = [th EXCEPT ![t] = [Idle EXCEPT !.pc = "dealloc", !.layout = b.layout,
                                !.bin = DeallocBinOf(pad_to_align(b.layout).size),
                                !.ptr = b.ptr]]
  /\ UNCHANGED <<bins, mapped, mem, fault, enomem, hist, last, workload, locks>>
\* the heap's deallocate inside the bracket: Bin::dealloc pushes inside
\* pages.with_pkey, storing the link into the cell with the rights the
\* thread has there; the thread's rights are put back afterwards
DomDeallocPush(t) ==
  LET b == Block(th[t].ptr, th[t].layout, t)
      inside == with_pkey(dom, t)
      ok == th[t].bin = HUGE \/ MayStore(inside.pkru[t])
  IN  /\ ~fault /\ th[t].pc = "dealloc"
      /\ IF ok
         THEN DeallocReturn(t, b, deallocate(Heap, b.ptr, b.layout))
         ELSE /\ Install([Heap EXCEPT !.fault = TRUE])
              /\ UNCHANGED <<hist, last>>
      /\ dom' = [dom EXCEPT !.ev = DomEvent("push", t, b.ptr, "none", inside,
                                             LevelOf(dom.pkru[t]), ok)]
      /\ th' = [th EXCEPT ![t].pc = "dealloc_exit"]
      /\ UNCHANGED <<live, workload, locks>>
\* with_level left: deallocate returns
DomDeallocExit(t) ==
  /\ ~fault /\ th[t].pc = "dealloc_exit"
  /\ DomBracketExit(t, "deallocate", th[t].ptr)
  /\ th' = [th EXCEPT ![t] = Idle]
  /\ UNCHANGED <<bins, mapped, mem, fault, enomem, live, hist, last, workload, locks>>

\* domain.allocate(layout) by thread t: forwarded to the heap, whose
\* Bin::alloc runs inside with_pkey and leaves the thread's level as it was
DomAllocate(t, layout) ==
  /\ DomReady(t)
  /\ BagCardinality(live) < MaxLive
  /\ \E k \in MmapAnswers(Heap, NULL, AllocMapLen(Heap, layout)) :
       AllocReturn(t, "allocate", layout, allocate(Heap, layout, k))
  /\ dom' = [dom EXCEPT !.ev = DomEvent("allocate", t, last'.ptr, "none", dom,
                                         LevelOf(dom.pkru[t]), last'.ok),
                         !.taken = @ \cup Chunks(bins')]
  /\ UNCHANGED <<workload, locks, th>>

\* the handles in use by running with_level calls: the one each call
\* borrows and the clone its f holds
RECURSIVE InUse(_, _)
InUse(D, t) ==
  IF t \notin DOMAIN D.frames THEN 0
  ELSE InUse(D, t + 1)
       + (IF D.frames[t] = <<>> THEN 0 ELSE Len(D.frames[t]) + 1)
\* thread t clones a handle
DomClone(t) ==
  /\ DomReady(t)
  /\ dom.handles < MaxHandles
  /\ dom' = [clone_handle(dom) EXCEPT
               !.ev = DomEvent("clone", t, NULL, "none", dom, LevelOf(dom.pkru[t]), TRUE)]
  /\ DomCall("clone")
  /\ UNCHANGED <<bins, mapped, mem, fault, enomem, live, hist, workload, locks, th>>
\* thread t drops a handle no running with_level call uses
DomDrop(t) ==
  /\ DomReady(t)
  /\ dom.handles > InUse(dom, 1)
  /\ dom' = [drop_handle(dom) EXCEPT
               !.ev = DomEvent("drop", t, NULL, "none", dom, LevelOf(dom.pkru[t]), TRUE)]
  /\ DomCall("drop")
  /\ UNCHANGED <<bins, mapped, mem, fault, enomem, live, hist, workload, locks, th>>
\* the destructor's step that reclaims the chunks: RSBMalloc::free_all
DomReclaim ==
  /\ ~fault /\ dom.dtor \in DOMAIN dtor_order
  /\ dtor_order[dom.dtor] = "reclaim"
  /\ Install(free_all(Heap))
  /\ dom' = [dom EXCEPT !.reclaimed = @ + 1,
                         !.dtor = IF dom.dtor = Len(dtor_order) THEN 0 ELSE @ + 1,
                         !.ev = [NoEvent EXCEPT !.op = "reclaim"]]
  /\ UNCHANGED <<live, hist, last, workload, locks, th>>
\* the destructor's step that returns the label to the kernel: pkey_free
DomRelease ==
  /\ ~fault /\ dom.dtor \in DOMAIN dtor_order
  /\ dtor_order[dom.dtor] = "release"
  /\ dom' = [dom EXCEPT !.label = "released",
                         !.released = @ + 1,
                         !.dtor = IF dom.dtor = Len(dtor_order) THEN 0 ELSE @ + 1,
                         !.ev = [NoEvent EXCEPT !.op = "release"]]
  /\ UNCHANGED <<bins, mapped, mem, fault, enomem, live, hist, last, workload, locks, th>>

\* thread t loads from a block it holds: SIGSEGV unless its rights allow it
DomLoad(t, b) ==
  /\ DomReady(t)
  /\ b \in Held /\ b.owner = t /\ b.layout.size > 0
  /\ LET ok == MayLoad(dom.pkru[t]) /\ Accessible(Heap, b.ptr, b.layout.size)
     IN  /\ fault' = ~ok
         /\ dom' = [dom EXCEPT !.ev = DomEvent("load", t, b.ptr, "none", dom,
                                                LevelOf(dom.pkru[t]), ok)]
  /\ DomCall("load")
  /\ UNCHANGED <<bins, mapped, mem, enomem, live, hist, workload, locks, th>>
\* thread t stores v in the first byte of a block it holds
DomStore(t, b, v) ==
  /\ DomReady(t)
  /\ b \in Held /\ b.owner = t /\ b.layout.size > 0
  /\ LET ok == MayStore(dom.pkru[t]) /\ Accessible(Heap, b.ptr, b.layout.size)
     IN  /\ fault' = ~ok
         /\ mem' = IF ok THEN StoreBytes(mem, b.ptr, <<v>>) ELSE mem
         /\ dom' = [dom EXCEPT !.ev = DomEvent("store", t, b.ptr, "none", dom,
                                                LevelOf(dom.pkru[t]), ok)]
  /\ DomCall("store")
  /\ UNCHANGED <<bins, mapped, enomem, live, hist, workload, locks, th>>

(***************************************************************************)
(* SpecLevel: threads changing their access level for a domain, nesting    *)
(* with_level, and allocating, touching and deallocating its cells.        *)
(***************************************************************************)
InitLevel ==
  /\ \E level \in AccessLevels : DomCreate(level)
  /\ workload = {Layout(PtrSize, 1)}
\* the creating thread and one other thread use the domain
DomThreads == {t \in Threads : t <= 2}
LevelBudget == last.n < MaxLevelOps
LevelSet == \E t \in DomThreads, l \in AccessLevels : LevelBudget /\ DomSetLevel(t, l)
LevelEnter == \E t \in DomThreads, l \in AccessLevels : LevelBudget /\ DomWithLevelEnter(t, l)
LevelExit == \E t \in DomThreads, how \in {"return", "panic"} : DomWithLevelExit(t, how)
LevelAllocate == \E t \in DomThreads, l \in workload : LevelBudget /\ DomAllocate(t, l)
LevelDeallocEnter == \E t \in DomThreads, b \in Held : LevelBudget /\ DomDeallocEnter(t, b)
LevelDeallocPush == \E t \in DomThreads : DomDeallocPush(t)
LevelDeallocExit == \E t \in DomThreads : DomDeallocExit(t)
LevelLoad == \E t \in DomThreads, b \in Held : LevelBudget /\ DomLoad(t, b)
LevelStore == \E t \in DomThreads, b \in Held, v \in UserBytes :
                LevelBudget /\ DomStore(t, b, v)
NextLevel ==
  \/ LevelSet \/ LevelEnter \/ LevelExit \/ LevelAllocate
  \/ LevelDeallocEnter \/ LevelDeallocPush \/ LevelDeallocExit
  \/ LevelLoad \/ LevelStore
SpecLevel == InitLevel /\ [][NextLevel]_vars

(***************************************************************************)
(* SpecElevate: threads at each access level calling the facade of a       *)
(* domain.  The heap reads and writes its blocks inside pages.with_pkey,   *)
(* except in PageAllocator::realloc, which grow calls for a block of the   *)
(* page allocator.                                                         *)
(***************************************************************************)
\* thread t may read and write the domain's pages inside pages.with_pkey
InBracket(t) == MayStore(with_pkey(dom, t).pkru[t])
\* thread t may read and write the domain's pages with the rights it has
Bare(t) == MayStore(dom.pkru[t])
\* what the domain records of a forwarded call: the level the thread had and
\* whether its rights allowed every access the heap made
Forwarded(op, t, ptr, ok) ==
  dom' = [dom EXCEPT !.ev = DomEvent(op, t, ptr, "none", dom, LevelOf(dom.pkru[t]), ok),
                     !.taken = @ \cup Chunks(bins')]
\* SIGSEGV inside op, the heap being H
Segv(op, H) ==
  /\ Install([H EXCEPT !.fault = TRUE])
  /\ DomCall(op)
  /\ UNCHANGED <<live, hist>>
\* domain.allocate_zeroed(layout) by thread t: write_bytes inside with_pkey
DomAllocateZeroed(t, layout) ==
  /\ DomReady(t)
  /\ BagCardinality(live) < MaxLive
  /\ \E k \in MmapAnswers(Heap, NULL, AllocMapLen(Heap, layout)) :
       IF InBracket(t)
       THEN AllocReturn(t, "allocate_zeroed", layout, allocate_zeroed(Heap, layout, k))
       ELSE Segv("allocate_zeroed", allocate(Heap, layout, k).h)
  /\ Forwarded("allocate_zeroed", t, last'.ptr, InBracket(t))
  /\ UNCHANGED <<workload, locks, th>>
\* grow of block b to layout goes to PageAllocator::realloc, which moves the
\* block when the kernel answers k1 to the hinted mmap
GrowMoves(b, layout, k1) ==
  /\ layout.align <= MAX_ALIGN
  /\ pad_to_align(b.layout).size > RSB_CHUNK_SIZE
  /\ ReallocMoveLen(b.ptr, b.layout, layout.size, k1) # 0
\* the rights allow the accesses of grow: copy_nonoverlapping of realloc with
\* the thread's own rights, everything else inside with_pkey
GrowAllowed(t, b, layout, k1) ==
  IF layout.align > MAX_ALIGN THEN TRUE
  ELSE IF pad_to_align(b.layout).size > RSB_CHUNK_SIZE
  THEN GrowMoves(b, layout, k1) => Bare(t)
  ELSE InBracket(t)
\* domain.grow(ptr, old_layout, layout) by thread t on a block it holds
DomGrow(t, b, layout) ==
  /\ DomReady(t)
  /\ b \in Held /\ b.owner = t
  /\ layout.size >= b.layout.size
  /\ LET m1 == GrowMap1(Heap, b.ptr, b.layout, layout)
     IN  \E k1 \in MmapAnswers(Heap, m1.hint, m1.len) :
           LET mid == GrowMid(Heap, b.ptr, b.layout, layout, k1)
           IN  \E k2 \in MmapAnswers(mid, NULL, GrowMap2Len(b.ptr, b.layout, layout, k1)) :
                 /\ IF GrowAllowed(t, b, layout, k1)
                    THEN GrowReturn(t, "grow", b, layout, allocate(Heap, layout, k1).h,
                                    grow(Heap, b.ptr, b.layout, layout, k1, k2))
                    ELSE Segv("grow",
                              IF GrowMoves(b, layout, k1)
                              THEN PageAlloc(mid, Layout(NewAlignedSize(b.layout, layout.size),
                                                        Max(b.layout.align, PAGE_SIZE)),
                                             k2).h
                              ELSE allocate(Heap, layout, k1).h)
                 /\ Forwarded("grow", t, b.ptr, GrowAllowed(t, b, layout, k1))
  /\ UNCHANGED <<workload, locks, th>>
\* domain.grow_zeroed(ptr, old_layout, layout) by thread t
DomGrowZeroed(t, b, layout) ==
  /\ DomReady(t)
  /\ b \in Held /\ b.owner = t
  /\ layout.size >= b.layout.size
  /\ \E k \in MmapAnswers(Heap, NULL, IF layout.align > MAX_ALIGN THEN 0
                                       ELSE AllocMapLen(Heap, layout)) :
       IF layout.align > MAX_ALIGN \/ InBracket(t)
       THEN GrowReturn(t, "grow_zeroed", b, layout, allocate_zeroed(Heap, layout, k).h,
                       grow_zeroed(Heap, b.ptr, b.layout, layout, k))
       ELSE Segv("grow_zeroed", allocate(Heap, layout, k).h)
  /\ Forwarded("grow_zeroed", t, b.ptr, layout.align > MAX_ALIGN \/ InBracket(t))
  /\ UNCHANGED <<workload, locks, th>>
\* domain.shrink(ptr, old_layout, layout) by thread t
DomShrink(t, b, layout) ==
  /\ DomReady(t)
  /\ b \in Held /\ b.owner = t
  /\ layout.size <= b.layout.size
  /\ \E k \in MmapAnswers(Heap, NULL, AllocMapLen(Heap, layout)) :
       IF layout.align > MAX_ALIGN \/ InBracket(t)
       THEN GrowReturn(t, "shrink", b, layout, allocate(Heap, layout, k).h,
                       shrink(Heap, b.ptr, b.layout, layout, k))
       ELSE Segv("shrink", allocate(Heap, layout, k).h)
  /\ Forwarded("shrink", t, b.ptr, layout.align > MAX_ALIGN \/ InBracket(t))
  /\ UNCHANGED <<workload, locks, th>>

\* cells of two bins; blocks of the page allocator; a cell grown into a block
ElevateWorkloads ==
  { {Layout(8, 8), Layout(24, 8)},
    {Layout(70000, 1), Layout(80000, 1)},
    {Layout(400, 4), Layout(80000, 4)} }
InitElevate ==
  /\ \E level \in AccessLevels : DomCreate(level)
  /\ workload \in ElevateWorkloads
ElevateBudget == last.n < MaxElevateOps
ElevAllocate == \E t \in DomThreads, l \in workload : ElevateBudget /\ DomAllocate(t, l)
ElevAllocateZeroed == \E t \in DomThreads, l \in workload :
                        ElevateBudget /\ DomAllocateZeroed(t, l)
ElevGrow == \E t \in DomThreads, b \in Held, l \in workload :
              ElevateBudget /\ DomGrow(t, b, l)
ElevGrowZeroed == \E t \in DomThreads, b \in Held, l \in workload :
                    ElevateBudget /\ DomGrowZeroed(t, b, l)
ElevShrink == \E t \in DomThreads, b \in Held, l \in workload :
                ElevateBudget /\ DomShrink(t, b, l)
ElevDeallocEnter == \E t \in DomThreads, b \in Held : ElevateBudget /\ DomDeallocEnter(t, b)
ElevDeallocPush == \E t \in DomThreads : DomDeallocPush(t)
ElevDeallocExit == \E t \in DomThreads : DomDeallocExit(t)
NextElevate ==
  \/ ElevAllocate \/ ElevAllocateZeroed \/ ElevGrow \/ ElevGrowZeroed \/ ElevShrink
  \/ ElevDeallocEnter \/ ElevDeallocPush \/ ElevDeallocExit
SpecElevate == InitElevate /\ [][NextElevate]_vars

(***************************************************************************)
(* SpecTeardown: handles of a domain are cloned and dropped, by the        *)
(* threads and by with_level, while cells and huge blocks are allocated    *)
(* and returned; the last drop runs the destructor.                        *)
(***************************************************************************)
\* what the threads of a run ask for: cells of two bins, or cells and huge
\* blocks
TeardownWorkloads ==
  {{Layout(PtrSize, 1), Layout(100, 4)}, {Layout(PtrSize, 1), Layout(70000, 1)}}
InitTeardown ==
  /\ \E level \in AccessLevels : DomCreate(level)
  /\ workload \in TeardownWorkloads
TeardownBudget == last.n < MaxTeardownOps
TdClone == \E t \in DomThreads : TeardownBudget /\ DomClone(t)
TdDrop == \E t \in DomThreads : DomDrop(t)
TdEnter == \E t \in DomThreads : TeardownBudget /\ DomWithLevelEnter(t, "ReadWrite")
TdExit == \E t \in DomThreads : DomWithLevelExit(t, "return")
TdAllocate == \E t \in DomThreads, l \in workload : TeardownBudget /\ DomAllocate(t, l)
TdDeallocEnter == \E t \in DomThreads, b \in Held : TeardownBudget /\ DomDeallocEnter(t, b)
TdDeallocPush == \E t \in DomThreads : DomDeallocPush(t)
TdDeallocExit == \E t \in DomThreads : DomDeallocExit(t)
NextTeardown ==
  \/ TdClone \/ TdDrop \/ TdEnter \/ TdExit \/ TdAllocate
  \/ TdDeallocEnter \/ TdDeallocPush \/ TdDeallocExit
  \/ DomReclaim \/ DomRelease
SpecTeardown == InitTeardown /\ [][NextTeardown]_vars

(***************************************************************************)
(* SpecPages: one caller using the page allocator directly, the kernel     *)
(* placing each mapping where it likes and refusing up to MaxRefusals.     *)
(***************************************************************************)
PagesWorkloads ==
  { {Layout(1, 1), Layout(PAGE_SIZE + 1, 1), Layout(3 * PAGE_SIZE, PAGE_SIZE)},
    {Layout(PAGE_SIZE, 2 * PAGE_SIZE), Layout(2 * PAGE_SIZE + 1, 2 * PAGE_SIZE)} }
InitPages ==
  /\ InitHeap
  /\ dom = NoDomain
  /\ enomem \in {0, MaxRefusals}
  /\ workload \in PagesWorkloads
\* the pointer is the base of a mapping the caller can use
Usable(h, ptr) == ptr # NULL /\ ptr # MAP_FAILED /\ ~h.fault
\* PAGE_ALLOCATOR.alloc(layout)
PagesAlloc ==
  \E l \in workload :
    /\ ~fault /\ last.n < MaxPagesOps
    /\ BagCardinality(live) < MaxMappings
    /\ \E k \in MmapAnswers(Heap, NULL, PageAllocLen(l)) :
         LET r == PageAlloc(Heap, l, k)
         IN  /\ Install(r.h)
             /\ live' = IF Usable(r.h, r.ptr)
                        THEN live (+) SetToBag({Block(r.ptr, l, 1)}) ELSE live
             /\ last' = [NoCall EXCEPT !.n = last.n + 1, !.op = "pages.alloc",
                           !.layout = l, !.ok = Usable(r.h, r.ptr), !.ptr = r.ptr,
                           !.len = PageAllocLen(l)]
    /\ UNCHANGED <<hist, workload, locks, th, dom>>
\* PAGE_ALLOCATOR.realloc(b.ptr, b.layout, new_size)
PagesRealloc ==
  \E b \in Held, l \in workload :
    LET new_size == l.size
        new == Layout(new_size, b.layout.align)
    IN  /\ ~fault /\ last.n < MaxPagesOps
        /\ \E k1 \in MmapAnswers(Heap, b.ptr + OldAlignedSize(b.layout),
                                   ReallocExtLen(b.layout, new_size)) :
             \E k2 \in MmapAnswers(ReallocTry(Heap, b.ptr, b.layout, new_size, k1), NULL,
                                    ReallocMoveLen(b.ptr, b.layout, new_size, k1)) :
               LET r == PageRealloc(Heap, b.ptr, b.layout, new_size, k1, k2)
               IN  /\ Install(r.h)
                   /\ live' = IF Usable(r.h, r.ptr)
                              THEN (live (-) SetToBag({b})) (+) SetToBag({Block(r.ptr, new, 1)})
                              ELSE live
                   /\ last' = [NoCall EXCEPT !.n = last.n + 1, !.op = "pages.realloc",
                                 !.layout = new, !.ok = Usable(r.h, r.ptr), !.ptr = r.ptr,
                                 !.len = new_size, !.old = b.ptr, !.old_layout = b.layout,
                                 !.snap = Contents(mem, b.ptr, b.layout.size),
                                 !.appended = k1]
        /\ UNCHANGED <<hist, workload, locks, th, dom>>
\* PAGE_ALLOCATOR.dealloc(b.ptr, b.layout)
PagesDealloc ==
  \E b \in Held :
    /\ ~fault /\ last.n < MaxPagesOps
    /\ Install(PageDealloc(Heap, b.ptr, b.layout))
    /\ live' = live (-) SetToBag({b})
    /\ last' = [NoCall EXCEPT !.n = last.n + 1, !.op = "pages.dealloc",
                  !.layout = b.layout, !.old = b.ptr, !.old_layout = b.layout]
    /\ UNCHANGED <<hist, workload, locks, th, dom>>
PagesWrite == \E b \in Held, v \in UserBytes : last.n < MaxPagesOps /\ UserWrite(1, b, v)
NextPages == PagesAlloc \/ PagesRealloc \/ PagesDealloc \/ PagesWrite
SpecPages == InitPages /\ [][NextPages]_vars

(***************************************************************************)
(* SpecRefuse: one caller allocating and deallocating cells while the      *)
(* kernel may refuse up to MaxRefusals mappings.                           *)
(***************************************************************************)
RefuseWorkloads ==
  {{Layout(PtrSize, 1)}, {Layout(RSB_CHUNK_SIZE, 1)}, {Layout(100, 4), Layout(RSB_CHUNK_SIZE, 1)}}
InitRefuse ==
  /\ InitHeap
  /\ dom = NoDomain
  /\ enomem \in 1..MaxRefusals
  /\ workload \in RefuseWorkloads
RefuseAllocate == \E l \in workload : last.n < MaxRefuseOps /\ Allocate(1, l)
RefuseDeallocate == \E b \in Held : last.n < MaxRefuseOps /\ Deallocate(1, b)
NextRefuse == RefuseAllocate \/ RefuseDeallocate
SpecRefuse == InitRefuse /\ [][NextRefuse]_vars

(***************************************************************************)
(* SpecRegrow: one caller growing, shrinking and reallocating blocks while *)
(* the kernel may refuse up to MaxRefusals mappings.                       *)
(***************************************************************************)
\* realloc(ptr, layout, new_size) of the GlobalAlloc implementation goes to
\* PAGE_ALLOCATOR.realloc
ReallocInPages(layout, new_size) ==
  /\ pad_to_align(layout).size > RSB_CHUNK_SIZE
  /\ pad_to_align(Layout(new_size, layout.align)).size > RSB_CHUNK_SIZE
\* RSBMalloc::realloc (GlobalAlloc), the kernel answering k1 then k2:
\* [h, ok, ptr, len], ok = FALSE for a null return
realloc(H, ptr, layout, new_size, k1, k2) ==
  IF layout.align > MAX_ALIGN
  THEN [h |-> H, ok |-> FALSE, ptr |-> NULL, len |-> 0]
  ELSE IF ReallocInPages(layout, new_size)
  THEN LET got == PageRealloc(H, ptr, layout, new_size, k1, k2)
       IN  [h |-> got.h, ok |-> got.ptr # NULL, ptr |-> got.ptr, len |-> new_size]
  ELSE LET new == allocate_any_align(H, Layout(new_size, layout.align), k1)
           copied == copy_nonoverlapping(new.h, ptr, new.ptr, Min(layout.size, new_size))
       IN  IF new.ptr = ptr \/ new.h.fault THEN new
           ELSE IF copied.fault THEN [new EXCEPT !.h = copied]
           ELSE [new EXCEPT !.h = deallocate(copied, ptr, layout)]
\* the call realloc(ptr, layout, new_size) of caller t on a block it holds
Realloc(t, b, new_size) ==
  /\ ~fault /\ AllIdle
  /\ b \in Held /\ b.owner = t
  /\ LET new_layout == Layout(new_size, b.layout.align)
         paged == b.layout.align <= MAX_ALIGN /\ ReallocInPages(b.layout, new_size)
         hint == IF paged THEN b.ptr + OldAlignedSize(b.layout) ELSE NULL
         len1 == IF b.layout.align > MAX_ALIGN THEN 0
                 ELSE IF paged THEN ReallocExtLen(b.layout, new_size)
                 ELSE AllocMapLen(Heap, new_layout)
     IN  \E k1 \in MmapAnswers(Heap, hint, len1) :
           \E k2 \in MmapAnswers(IF paged
                                  THEN ReallocTry(Heap, b.ptr, b.layout, new_size, k1)
                                  ELSE Heap,
                                  NULL,
                                  IF paged
                                  THEN ReallocMoveLen(b.ptr, b.layout, new_size, k1)
                                  ELSE 0) :
             \E r \in {realloc(Heap, b.ptr, b.layout, new_size, k1, k2)} :
               GrowReturn(t, "realloc", b, new_layout, r.h, r)
  /\ UNCHANGED <<workload, locks, th, dom>>

\* a cell grown into a block of the page allocator; blocks of the page
\* allocator; a cell grown into a cell of a bin that has no chunk yet; a
\* cell and an alignment no bin serves
RegrowWorkloads ==
  { {Layout(400, 4), Layout(80000, 4)},
    {Layout(70000, 1), Layout(80000, 1)},
    {Layout(PtrSize, 1), Layout(RSB_CHUNK_SIZE, 1)},
    {Layout(16, 8), Layout(32, 2 * MAX_ALIGN)} }
InitRegrow ==
  /\ InitHeap
  /\ dom = NoDomain
  /\ enomem \in 0..MaxRefusals
  /\ workload \in RegrowWorkloads
RegrowBudget == last.n < MaxRegrowOps
RegrowAllocate == \E l \in workload : RegrowBudget /\ Allocate(1, l)
RegrowWrite == \E b \in Held, v \in UserBytes : RegrowBudget /\ UserWrite(1, b, v)
RegrowGrow == \E b \in Held, l \in workload : RegrowBudget /\ Grow(1, b, l)
RegrowGrowZeroed == \E b \in Held, l \in workload : RegrowBudget /\ GrowZeroed(1, b, l)
RegrowShrink == \E b \in Held, l \in workload : RegrowBudget /\ Shrink(1, b, l)
RegrowRealloc == \E b \in Held, l \in workload : RegrowBudget /\ Realloc(1, b, l.size)
NextRegrow ==
  \/ RegrowAllocate \/ RegrowWrite \/ RegrowGrow \/ RegrowGrowZeroed
  \/ RegrowShrink \/ RegrowRealloc
SpecRegrow == InitRegrow /\ [][NextRegrow]_vars

(***************************************************************************)
(* SpecDispatch: one caller allocating and deallocating blocks of one      *)
(* layout, for sizes around every class boundary and several alignments.   *)
(***************************************************************************)
DispatchSizes ==
  {0} \cup UNION {{SlotLen[c] - 1, SlotLen[c], SlotLen[c] + 1} : c \in Classes}
DispatchAligns == {1, PtrSize, 2 * PtrSize, 512, MAX_ALIGN, 2 * MAX_ALIGN}
InitDispatch ==
  /\ InitHeap
  /\ dom = NoDomain
  /\ enomem = 0
  /\ workload \in {{Layout(size, align)} : size \in DispatchSizes, align \in DispatchAligns}
DispatchAllocate == \E l \in workload : last.n < MaxDispatchOps /\ Allocate(1, l)
DispatchDeallocate == \E b \in Held : last.n < MaxDispatchOps /\ Deallocate(1, b)
NextDispatch == DispatchAllocate \/ DispatchDeallocate
SpecDispatch == InitDispatch /\ [][NextDispatch]_vars

(***************************************************************************)
(* SpecConc: threads inside Bin::alloc and Bin::dealloc of one heap.  Each *)
(* critical section is two steps: take the spin::Mutex and read the field  *)
(* it guards; then write the field and release the Mutex.                  *)
(***************************************************************************)
\* spin::Mutex::lock returns once nobody holds the Mutex
try_lock_unguarded(holder) == TRUE
try_lock(holder) == holder = NoOwner
\* H as the thread that read head / page under the Mutex sees it
WithHead(H, c, head) == [H EXCEPT !.bins[c].free_head = head]
WithPage(H, c, page) == [H EXCEPT !.bins[c].page = page]
InCall == {t \in Threads : th[t].pc # "idle"}
InAlloc == {t \in Threads : th[t].pc \in {"alloc", "add_one_lock", "add_one"}}
\* a guard of the bump Mutex that is never dropped
Unlock_page_kept(c, field) ==
  locks' = IF field = "page" THEN locks ELSE [locks EXCEPT ![c][field] = NoOwner]
\* the MutexGuard is dropped
Unlock(c, field) == locks' = [locks EXCEPT ![c][field] = NoOwner]
Return(t) == th' = [th EXCEPT ![t] = Idle]
HeapUnchanged == UNCHANGED <<bins, mapped, mem, fault, enomem>>

\* allocate(layout) up to `self.free_head.lock()` of Bin::alloc; a request
\* that no bin serves completes here
AllocLock(t, layout) ==
  LET c == AllocBinOf(pad_to_align(layout).size)
  IN  /\ ~fault /\ th[t].pc = "idle"
      /\ BagCardinality(live) + Cardinality(InAlloc) < MaxLive
      /\ IF layout.align > MAX_ALIGN \/ c = HUGE
         THEN /\ \E k \in MmapAnswers(Heap, NULL, AllocMapLen(Heap, layout)) :
                   AllocReturn(t, "allocate", layout, allocate(Heap, layout, k))
              /\ UNCHANGED <<locks, th>>
         ELSE /\ try_lock(locks[c].free_head)
              /\ locks' = [locks EXCEPT ![c].free_head = t]
              /\ th' = [th EXCEPT ![t] = [Idle EXCEPT !.pc = "alloc", !.layout = layout,
                                            !.bin = c, !.head = bins[c].free_head]]
              /\ HeapUnchanged
              /\ UNCHANGED <<live, hist, last>>
      /\ UNCHANGED <<workload, dom>>
\* the body of Bin::alloc under the free-list Mutex: pop the head read, or
\* drop(free_head) and go on to add_one
AllocPop(t) ==
  LET c == th[t].bin
  IN  /\ ~fault /\ th[t].pc = "alloc"
      /\ Unlock(c, "free_head")
      /\ IF th[t].head # NULL
         THEN \E got \in {pop_free(WithHead(Heap, c, th[t].head), c)} :
                /\ AllocReturn(t, "allocate", th[t].layout,
                               AllocResult(got.h, got.ptr, th[t].layout))
                /\ Return(t)
         ELSE /\ th' = [th EXCEPT ![t].pc = "add_one_lock"]
              /\ HeapUnchanged
              /\ UNCHANGED <<live, hist, last>>
      /\ UNCHANGED <<workload, dom>>
\* `self.page.lock()` of Bin::add_one
AddOneLock(t) ==
  LET c == th[t].bin
  IN  /\ ~fault /\ th[t].pc = "add_one_lock"
      /\ try_lock(locks[c].page)
      /\ locks' = [locks EXCEPT ![c].page = t]
      /\ th' = [th EXCEPT ![t].pc = "add_one", ![t].page = bins[c].page]
      /\ HeapUnchanged
      /\ UNCHANGED <<live, hist, last, workload, dom>>
\* the body of Bin::add_one under the bump Mutex: bump, or take a chunk
\* (recording it under the chunks Mutex)
AddOneBump(t) ==
  LET c == th[t].bin
      seen == WithPage(Heap, c, th[t].page)
  IN  /\ ~fault /\ th[t].pc = "add_one"
      /\ AddOneMapLen(seen, c) # 0 => try_lock(locks[c].pages)
      /\ \E got \in {add_one(seen, c, k) :
                        k \in MmapAnswers(seen, NULL, AddOneMapLen(seen, c))} :
           AllocReturn(t, "allocate", th[t].layout,
                       AllocResult(got.h, got.ptr, th[t].layout))
      /\ Unlock(c, "page")
      /\ Return(t)
      /\ UNCHANGED <<workload, dom>>
\* deallocate(b.ptr, b.layout) up to `self.free_head.lock()` of Bin::dealloc;
\* a block of the page allocator is unmapped here
DeallocLock(t, b) ==
  LET c == DeallocBinOf(pad_to_align(b.layout).size)
  IN  /\ ~fault /\ th[t].pc = "idle"
      /\ b \in Held /\ b.owner = t
      /\ live' = live (-) SetToBag({b})
      /\ IF c = HUGE
         THEN /\ DeallocReturn(t, b, deallocate(Heap, b.ptr, b.layout))
              /\ UNCHANGED <<locks, th>>
         ELSE /\ try_lock(locks[c].free_head)
              /\ locks' = [locks EXCEPT ![c].free_head = t]
              /\ th' = [th EXCEPT ![t] = [Idle EXCEPT !.pc = "dealloc", !.layout = b.layout,
                                            !.bin = c, !.ptr = b.ptr,
                                            !.head = bins[c].free_head]]
              /\ HeapUnchanged
              /\ UNCHANGED <<hist, last>>
      /\ UNCHANGED <<workload, dom>>
\* the body of Bin::dealloc under the free-list Mutex: link and install
DeallocPush(t) ==
  LET c == th[t].bin
  IN  /\ ~fault /\ th[t].pc = "dealloc"
      /\ DeallocReturn(t, Block(th[t].ptr, th[t].layout, t),
                       BinDealloc(WithHead(Heap, c, th[t].head), c, th[t].ptr))
      /\ Unlock(c, "free_head")
      /\ Return(t)
      /\ UNCHANGED <<live, workload, dom>>

\* layouts of the classes with one, two and many cells to a chunk
ConcLayouts == {Layout(RSB_CHUNK_SIZE, 1), Layout(RSB_CHUNK_SIZE \div 2, 1),
                Layout(PtrSize, 1)}
InitConc ==
  /\ InitHeap
  /\ dom = NoDomain
  /\ enomem = 0
  /\ workload \in {{l} : l \in ConcLayouts}
Started == last.n + Cardinality(InCall)
ConcAllocLock == \E t \in Threads : \E l \in workload :
                   Started < MaxConcOps /\ AllocLock(t, l)
ConcAllocPop == \E t \in Threads : AllocPop(t)
ConcAddOneLock == \E t \in Threads : AddOneLock(t)
ConcAddOneBump == \E t \in Threads : AddOneBump(t)
ConcDeallocLock == \E t \in Threads : \E b \in Held :
                     Started < MaxConcOps /\ DeallocLock(t, b)
ConcDeallocPush == \E t \in Threads : DeallocPush(t)
NextConc ==
  \/ ConcAllocLock \/ ConcAllocPop \/ ConcAddOneLock \/ ConcAddOneBump
  \/ ConcDeallocLock \/ ConcDeallocPush
SpecConc == InitConc /\ [][NextConc]_vars
\* the scheduler lets every thread that can take a step take one: a thread
\* inside a call runs on, and a spinning lock() returns once the Mutex
\* stays free
Progress(t) == AllocPop(t) \/ AddOneLock(t) \/ AddOneBump(t) \/ DeallocPush(t)
\* the pair of threads whose calls on one bin the scheduler interleaves
FairThreads == {t \in Threads : t <= 2}
\* the address space has room for the chunk of every allocate under way
\* and of one more, so that the kernel has an answer to each mmap
HasRoom ==
  (Cardinality(InAlloc) + 1) * (RSB_CHUNK_SIZE \div PAGE_SIZE)
    <= SpacePages - Cardinality(mapped)
FairAllocLock == \E t \in FairThreads : \E l \in workload :
                   Started < MaxFairOps /\ HasRoom /\ AllocLock(t, l)
FairAllocPop == \E t \in FairThreads : AllocPop(t)
FairAddOneLock == \E t \in FairThreads : AddOneLock(t)
FairAddOneBump == \E t \in FairThreads : AddOneBump(t)
FairDeallocLock == \E t \in FairThreads : \E b \in Held :
                     Started < MaxFairOps /\ DeallocLock(t, b)
FairDeallocPush == \E t \in FairThreads : DeallocPush(t)
NextFair ==
  \/ FairAllocLock \/ FairAllocPop \/ FairAddOneLock \/ FairAddOneBump
  \/ FairDeallocLock \/ FairDeallocPush
SpecConcFair ==
  InitConc /\ [][NextFair]_vars /\ \A t \in FairThreads : WF_vars(Progress(t))

(***************************************************************************)
(* SpecLocks: threads inside Bin::alloc, Bin::dealloc and Bin::free_all of *)
(* one bin.  A thread in free_all takes the three Mutexes one step at a    *)
(* time and does its work, releasing all three, with the last.             *)
(***************************************************************************)
\* a free_all that takes the Mutexes in the opposite order
free_all_order_reversed == <<"pages", "page", "free_head">>
\* the order of the lock() calls of Bin::free_all
free_all_order == <<"free_head", "page", "pages">>
\* the Mutexes of bin c that thread t holds
HeldLocks(t, c) == {f \in {"free_head", "page", "pages"} : locks[c][f] = t}
\* Bin::free_all entered by thread t for the bin of layout
FreeAllStart(t, layout) ==
  /\ ~fault /\ th[t].pc = "idle"
  /\ AllocBinOf(pad_to_align(layout).size) # HUGE
  /\ th' = [th EXCEPT ![t] = [Idle EXCEPT !.pc = "free_all",
                                !.bin = AllocBinOf(pad_to_align(layout).size),
                                !.held = 0]]
  /\ HeapUnchanged
  /\ UNCHANGED <<live, hist, last, workload, locks, dom>>
\* the next lock() of Bin::free_all; with the third Mutex the bin is reset,
\* its chunks are unmapped and the guards are dropped; the cells the bin
\* had vended are gone with the chunks
FreeAllLock(t) ==
  LET c == th[t].bin
      f == free_all_order[th[t].held + 1]
  IN  /\ ~fault /\ th[t].pc = "free_all"
      /\ try_lock(locks[c][f])
      /\ IF th[t].held + 1 < Len(free_all_order)
         THEN /\ locks' = [locks EXCEPT ![c][f] = t]
              /\ th' = [th EXCEPT ![t].held = @ + 1]
              /\ HeapUnchanged
              /\ UNCHANGED <<live, hist, last>>
         ELSE /\ locks' = [locks EXCEPT ![c] = [g \in DOMAIN @ |->
                                                  IF @[g] = t THEN NoOwner ELSE @[g]]]
              /\ Return(t)
              /\ Install(BinFreeAll(Heap, c))
              /\ live' = [b \in {x \in Held : AllocBinOf(pad_to_align(x.layout).size) # c}
                            |-> CopiesIn(b, live)]
              /\ last' = [NoCall EXCEPT !.n = last.n + 1, !.op = "free_all"]
              /\ UNCHANGED hist
      /\ UNCHANGED <<workload, dom>>
InitLocks ==
  /\ InitHeap
  /\ dom = NoDomain
  /\ enomem = 0
  /\ workload \in {{l} : l \in ConcLayouts}
LocksAllocLock == \E t \in Threads : \E l \in workload :
                    Started < MaxLockOps /\ AllocLock(t, l)
LocksAllocPop == \E t \in Threads : AllocPop(t)
LocksAddOneLock == \E t \in Threads : AddOneLock(t)
LocksAddOneBump == \E t \in Threads : AddOneBump(t)
LocksDeallocLock == \E t \in Threads : \E b \in Held :
                      Started < MaxLockOps /\ DeallocLock(t, b)
LocksDeallocPush == \E t \in Threads : DeallocPush(t)
LocksFreeAllStart == \E t \in Threads : \E l \in workload :
                       Started < MaxLockOps /\ FreeAllStart(t, l)
LocksFreeAllLock == \E t \in Threads : FreeAllLock(t)
NextLocks ==
  \/ LocksAllocLock \/ LocksAllocPop \/ LocksAddOneLock \/ LocksAddOneBump
  \/ LocksDeallocLock \/ LocksDeallocPush
  \/ LocksFreeAllStart \/ LocksFreeAllLock
SpecLocks == InitLocks /\ [][NextLocks]_vars

(***************************************************************************)
(* Properties of a bin                                                     *)
(***************************************************************************)
\* the blocks held that bin c vended
BinOfBlock(b) == AllocBinOf(pad_to_align(b.layout).size)
LiveIn(c) == {b \in Held : BinOfBlock(b) = c}
\* [ptr, ptr + len) lies inside a chunk recorded in bin c's chunks list
InChunk(c, ptr, len) ==
  \E i \in DOMAIN bins[c].pages :
    LET chunk == bins[c].pages[i]
    IN  chunk.ptr <= ptr /\ ptr + len <= chunk.ptr + chunk.layout.size
Disjoint(p, q, len) == p + len <= q \/ q + len <= p
IsAlloc(i, c) == hist[i].op = "alloc" /\ hist[i].bin = c
IsDealloc(i, c) == hist[i].op = "dealloc" /\ hist[i].bin = c

\* C1: in every bin the live cells are pairwise disjoint byte ranges, each
\* inside a chunk recorded in the bin's chunks list, and the bin never vends
\* the same address twice without a deallocation in between.
C1_LiveCellsDisjoint ==
  /\ \A b \in Held :
       BinOfBlock(b) # HUGE =>
         CopiesIn(b, live) = 1 /\ InChunk(BinOfBlock(b), b.ptr, SIZE(BinOfBlock(b)))
  /\ \A b1, b2 \in Held :
       (b1 # b2 /\ BinOfBlock(b1) # HUGE /\ BinOfBlock(b1) = BinOfBlock(b2))
         => Disjoint(b1.ptr, b2.ptr, SIZE(BinOfBlock(b1)))
  /\ \A j \in DOMAIN hist : \A i \in 1..(j - 1) :
       (hist[j].bin # HUGE /\ IsAlloc(j, hist[j].bin) /\ IsAlloc(i, hist[j].bin)
        /\ hist[i].ptr = hist[j].ptr)
         => \E k \in (i + 1)..(j - 1) : IsDealloc(k, hist[j].bin)
\* a bin with two chunks holds live cells, one of them recycled from the
\* free stack and one in the second chunk
C1_Witness ==
  \E c \in Classes :
    /\ Len(bins[c].pages) >= 2
    /\ \E b1, b2 \in LiveIn(c) :
         /\ b1 # b2
         /\ \E i \in DOMAIN hist : IsDealloc(i, c) /\ hist[i].ptr = b1.ptr
         /\ bins[c].pages[2].ptr <= b2.ptr
         /\ b2.ptr < bins[c].pages[2].ptr + RSB_CHUNK_SIZE

\* events i .. i+3n-1 are n allocations, n deallocations of those cells and
\* n allocations again, all in bin c
Cycle(i, n, c) ==
  /\ i + 3 * n - 1 <= Len(hist)
  /\ \A k \in i..(i + n - 1) : IsAlloc(k, c)
  /\ \A k \in (i + n)..(i + 2 * n - 1) : IsDealloc(k, c)
  /\ {hist[k].ptr : k \in (i + n)..(i + 2 * n - 1)} = {hist[k].ptr : k \in i..(i + n - 1)}
  /\ \A k \in (i + 2 * n)..(i + 3 * n - 1) : IsAlloc(k, c)
\* C7: after N allocations and N deallocations of those cells in a bin, the
\* next N allocations return the same set of addresses, bump no fresh cell
\* and acquire no chunk.
C7_ReuseSameCells ==
  \A i \in DOMAIN hist : \A n \in 1..((Len(hist) - i + 1) \div 3) :
    (hist[i].bin # HUGE /\ Cycle(i, n, hist[i].bin)) =>
      /\ {hist[k].ptr : k \in (i + 2 * n)..(i + 3 * n - 1)}
           = {hist[k].ptr : k \in i..(i + n - 1)}
      /\ \A k \in (i + 2 * n)..(i + 3 * n - 1) :
           /\ hist[k].bump = hist[i + 2 * n - 1].bump
           /\ hist[k].nchunks = hist[i + 2 * n - 1].nchunks
\* a completed cycle of two cells, the first from the free stack and the
\* second bumped
C7_Witness ==
  \E c \in Classes : \E i \in DOMAIN hist :
    /\ Cycle(i, 2, c)
    /\ i > 1 /\ IsDealloc(i - 1, c)
    /\ hist[i + 1].bump # hist[i].bump

\* the cells of bin c freed and not vended again, oldest first, after the
\* first i events
RECURSIVE FreedStack(_, _)
FreedStack(i, c) ==
  IF i = 0 THEN <<>>
  ELSE LET s == FreedStack(i - 1, c)
           e == hist[i]
       IN  IF e.bin # c THEN s
           ELSE IF e.op = "dealloc" THEN Append(s, e.ptr)
           ELSE SelectSeq(s, LAMBDA p : p # e.ptr)
\* C8: an allocation in a bin with freed cells returns the most recently
\* freed cell not vended since, and leaves the free head at the cell freed
\* just before it, or null.
C8_LifoReuse ==
  \A i \in DOMAIN hist :
    (hist[i].op = "alloc" /\ hist[i].bin # HUGE) =>
      LET s == FreedStack(i - 1, hist[i].bin)
      IN  s # <<>> =>
            /\ hist[i].ptr = s[Len(s)]
            /\ hist[i].head = IF Len(s) >= 2 THEN s[Len(s) - 1] ELSE NULL
\* an allocation popped a free stack of two cells that were freed in the
\* order opposite to their addresses
C8_Witness ==
  \E i \in DOMAIN hist :
    /\ hist[i].op = "alloc" /\ hist[i].bin # HUGE
    /\ LET s == FreedStack(i - 1, hist[i].bin)
       IN  Len(s) >= 2 /\ s[Len(s)] < s[Len(s) - 1] /\ hist[i].head # NULL

(***************************************************************************)
(* Properties of concurrent callers                                        *)
(***************************************************************************)
\* C2: under every interleaving of the threads' steps no cell is held by
\* two callers at once: the blocks held are distinct, pairwise disjoint
\* cells, and a cell vended to one thread is vended again only after that
\* thread has deallocated it.
C2_NoCellHeldTwice ==
  /\ \A b \in Held : CopiesIn(b, live) = 1
  /\ \A b1, b2 \in Held :
       (b1 # b2 /\ BinOfBlock(b1) # HUGE /\ BinOfBlock(b1) = BinOfBlock(b2))
         => Disjoint(b1.ptr, b2.ptr, SIZE(BinOfBlock(b1)))
  /\ \A j \in DOMAIN hist : \A i \in 1..(j - 1) :
       (hist[j].bin # HUGE /\ IsAlloc(j, hist[j].bin) /\ IsAlloc(i, hist[j].bin)
        /\ hist[i].ptr = hist[j].ptr)
         => \E k \in (i + 1)..(j - 1) :
              /\ IsDealloc(k, hist[j].bin)
              /\ hist[k].ptr = hist[j].ptr
              /\ hist[k].by = hist[i].by
\* a thread holds a cell that another thread freed, while that other thread
\* is inside a call on the same bin
C2_Witness ==
  \E b \in Held : \E t \in Threads \ {b.owner} :
    /\ th[t].pc # "idle" /\ th[t].bin = BinOfBlock(b)
    /\ \E j \in DOMAIN hist : \E i \in 1..(j - 1) :
         /\ IsDealloc(i, BinOfBlock(b)) /\ hist[i].ptr = b.ptr /\ hist[i].by = t
         /\ IsAlloc(j, BinOfBlock(b)) /\ hist[j].ptr = b.ptr /\ hist[j].by = b.owner

(***************************************************************************)
(* Properties of the Allocator interface                                   *)
(***************************************************************************)
\* the last step was the facade call op
Called(op) == last'.n # last.n /\ last'.op = op
IsHuge(layout) == pad_to_align(layout).size > RSB_CHUNK_SIZE

\* C4: allocate and grow with a layout whose alignment exceeds 4096 return
\* the allocation error, change no bin (free head, bump, chunks) and map no
\* memory.
C4_OverAlignedRejected ==
  [][ ((Called("allocate") \/ Called("grow")) /\ last'.layout.align > MAX_ALIGN)
        => (~last'.ok /\ bins' = bins /\ mapped' = mapped) ]_vars
\* a grow to an over-aligned layout failed while a bin had a chunk and the
\* caller still holds the block
C4_Witness ==
  /\ last.op = "grow" /\ last.layout.align > MAX_ALIGN /\ ~last.ok
  /\ \E c \in Classes : bins[c].pages # <<>>
  /\ \E b \in Held : b.ptr = last.old

\* fresh pages at ptr serve the request for layout, and no bin changed
ServedByPages(ptr, layout) ==
  /\ ptr % PAGE_SIZE = 0
  /\ PagesOf(ptr, PageAllocLen(layout)) # {}
  /\ PagesOf(ptr, PageAllocLen(layout)) \cap mapped = {}
  /\ mapped' = mapped \cup PagesOf(ptr, PageAllocLen(layout))
  /\ bins' = bins
\* the pages of the block at ptr went back to the kernel, and no bin changed
ReturnedToPages(ptr, layout) ==
  /\ mapped' = mapped \ PagesOf(ptr, PageAllocLen(layout))
  /\ bins' = bins
\* C6 as stated: a request whose padded size exceeds 65536, or whose
\* alignment no bin serves (above 4096), is satisfied by the page allocator;
\* a huge allocate or deallocate leaves every bin unchanged.
C6_HugeOrOverAlignedGoesToPages ==
  [][ /\ (Called("allocate") /\ (IsHuge(last'.layout) \/ last'.layout.align > MAX_ALIGN))
           => (last'.ok /\ ServedByPages(last'.ptr, last'.layout))
      /\ (Called("deallocate") /\ IsHuge(last'.layout))
           => ReturnedToPages(last'.old, last'.layout) ]_vars
\* C6 amended: a request of alignment at most 4096 whose padded size exceeds
\* 65536 is satisfied by the page allocator, a request of alignment above
\* 4096 is refused and maps nothing; a huge allocate or deallocate leaves
\* every bin unchanged.
C6_HugeGoesToPages ==
  [][ /\ (Called("allocate") /\ IsHuge(last'.layout) /\ last'.layout.align <= MAX_ALIGN)
           => (last'.ok /\ ServedByPages(last'.ptr, last'.layout))
      /\ (Called("allocate") /\ last'.layout.align > MAX_ALIGN)
           => (~last'.ok /\ mapped' = mapped /\ bins' = bins)
      /\ (Called("deallocate") /\ IsHuge(last'.layout))
           => ReturnedToPages(last'.old, last'.layout) ]_vars
\* a huge block was deallocated while a bin had a free cell and a live cell
C6_Witness ==
  /\ last.op = "deallocate" /\ IsHuge(last.layout)
  /\ \E c \in Classes : bins[c].free_head # NULL /\ LiveIn(c) # {}

\* C9: every byte of the padded-size slice that allocate_zeroed returns is
\* 0, also when the cell comes from the free stack and held user data or a
\* free-list link.
C9_ZeroedIsZero ==
  (last.op = "allocate_zeroed" /\ last.ok)
    => DOMAIN Contents(mem, last.ptr, last.len) = {}
\* allocate_zeroed returned a cell from the free stack that held non-zero
\* bytes when it was called
C9_Witness ==
  /\ last.op = "allocate_zeroed" /\ last.ok /\ last.dirty
  /\ \E i \in DOMAIN hist : hist[i].op = "dealloc" /\ hist[i].ptr = last.ptr

\* C10: after a successful grow or grow_zeroed the first old.size bytes of
\* the returned block are the first old.size bytes the old block held when
\* the call was made.
C10_GrowPreserves ==
  (last.op \in {"grow", "grow_zeroed"} /\ last.ok)
    => Contents(mem, last.ptr, last.old_layout.size) = last.snap
\* a grow moved a block whose first and last byte the caller had written
C10_Witness ==
  /\ last.op = "grow" /\ last.ok /\ last.ptr # last.old
  /\ last.old_layout.size > 1
  /\ DOMAIN last.snap = {0, last.old_layout.size - 1}

\* C11: after a successful shrink the first new.size bytes of the returned
\* block are the first new.size bytes the old block held when the call was
\* made.
C11_ShrinkPreserves ==
  (last.op = "shrink" /\ last.ok)
    => LET kept == {off \in DOMAIN last.snap : off < last.layout.size}
       IN  Contents(mem, last.ptr, last.layout.size) = [off \in kept |-> last.snap[off]]
\* a huge block that was grown from a bin cell shrank into a bin cell, and
\* the caller had written bytes inside and beyond the part kept
C11_Witness ==
  /\ last.op = "shrink" /\ last.ok
  /\ IsHuge(last.old_layout) /\ ~IsHuge(last.layout)
  /\ \E off \in DOMAIN last.snap : off < last.layout.size
  /\ \E off \in DOMAIN last.snap : off >= last.layout.size
  /\ \E i \in DOMAIN hist : hist[i].op = "dealloc" /\ hist[i].bin # HUGE

(***************************************************************************)
(* Properties of the dispatch                                              *)
(***************************************************************************)
\* the smallest class whose size is at least size, HUGE when there is none
SmallestClass(size) ==
  IF \A c \in Classes : SlotLen[c] < size THEN HUGE
  ELSE CHOOSE c \in Classes :
         SlotLen[c] >= size /\ \A d \in Classes : SlotLen[d] >= size => c <= d
\* the bins with a chunk that holds the cell at ptr
ChunkOwners(ptr) == {c \in Classes : InChunk(c, ptr, SIZE(c))}

\* C3 as stated: for every layout of alignment at most 4096, of every size,
\* allocate returns an address that is a multiple of the class alignment of
\* the selected bin, and that class alignment is at least the alignment
\* requested (a block of the page allocator is page-aligned).
C3_AlignedToClass ==
  (last.op = "allocate" /\ last.ok /\ last.layout.align <= MAX_ALIGN) =>
    LET c == AllocBinOf(pad_to_align(last.layout).size)
    IN  IF c = HUGE
        THEN last.ptr % PAGE_SIZE = 0 /\ PAGE_SIZE >= last.layout.align
        ELSE last.ptr % align_of(c) = 0 /\ align_of(c) >= last.layout.align

\* C5: for every layout of alignment at most 4096 allocate returns a slice
\* of the padded size from the smallest class whose size is at least the
\* padded size, and from the page allocator exactly when the padded size
\* exceeds 65536; deallocate with the same layout returns the cell to the
\* free stack of that same bin, or the block to the kernel.
C5_DispatchMirrored ==
  /\ (last.op = "allocate" /\ last.layout.align <= MAX_ALIGN) =>
       LET size == pad_to_align(last.layout).size
       IN  /\ last.ok /\ last.len = size
           /\ ChunkOwners(last.ptr) =
                IF size > RSB_CHUNK_SIZE THEN {} ELSE {SmallestClass(size)}
           /\ size > RSB_CHUNK_SIZE => Accessible(Heap, last.ptr, size)
  /\ last.op = "deallocate" =>
       LET size == pad_to_align(last.layout).size
       IN  IF size > RSB_CHUNK_SIZE
           THEN /\ PagesOf(last.old, size) \cap mapped = {}
                /\ \A c \in Classes : bins[c].free_head # last.old
           ELSE /\ bins[SmallestClass(size)].free_head = last.old
                /\ ChunkOwners(last.old) = {SmallestClass(size)}
  /\ \A c \in Classes :
       bins[c].free_head # NULL => ChunkOwners(bins[c].free_head) = {c}
\* a cell went back to the bin of its padded size, a class above the class
\* of its unpadded size, while another cell of that bin is held
C5_Witness ==
  /\ last.op = "deallocate"
  /\ SmallestClass(last.layout.size) # SmallestClass(pad_to_align(last.layout).size)
  /\ SmallestClass(pad_to_align(last.layout).size) # HUGE
  /\ bins[SmallestClass(pad_to_align(last.layout).size)].free_head = last.old
  /\ LiveIn(SmallestClass(pad_to_align(last.layout).size)) # {}

(***************************************************************************)
(* Properties of the protection domain                                     *)
(***************************************************************************)
\* C12: when with_level(L, f) returns or panics, the calling thread's
\* access level is the one it had right before that call, whatever that
\* level, L and the calls nested in f were.
C12_WithLevelRestores ==
  dom.ev.op = "exit" => dom.ev.level = dom.ev.before
\* a with_level nested in another one was left by a panic after f had set
\* a level other than the one the thread is back at, and the outer call
\* will return to a third level
C12_Witness ==
  /\ dom.ev.op = "exit" /\ dom.ev.want = "panic"
  /\ Len(dom.calls[dom.ev.by]) = 1
  /\ dom.ev.level # Top(dom.calls[dom.ev.by])
  /\ last.op = "set_level"

\* C13: deallocating a cell goes through at every access level of the
\* calling thread: the push onto the free stack runs while the thread's
\* level is ReadWrite and is not refused, and when deallocate returns the
\* thread is back at the level it had before the call.
C13_DeallocAtEveryLevel ==
  /\ dom.ev.op = "push" =>
        /\ dom.ev.ok /\ dom.ev.level = "ReadWrite"
        /\ ~fault /\ \E i \in Classes : bins[i].free_head = dom.ev.ptr
  /\ (dom.ev.op = "exit" /\ dom.ev.want = "deallocate") =>
        ~fault /\ dom.ev.level = dom.ev.before
\* a thread whose level is DenyAll has deallocated a cell, and the cell is
\* on its bin's free stack
C13_Witness ==
  /\ dom.ev.op = "exit" /\ dom.ev.want = "deallocate"
  /\ dom.ev.level = "DenyAll"
  /\ \E i \in Classes : bins[i].free_head = dom.ev.ptr
  /\ last.op = "deallocate" /\ last.old = dom.ev.ptr

\* C14: a load or store of a thread to a cell of the domain goes through
\* according to the level the thread asked for last (by create, set_level or
\* the with_level call it is in): neither at DenyAll, loads only at
\* ReadOnly, both at ReadWrite.
C14_LevelGovernsAccess ==
  dom.ev.op \in {"load", "store"} =>
    LET asked == Top(dom.asked[dom.ev.by])
    IN  dom.ev.ok <=> \/ asked = "ReadWrite"
                      \/ asked = "ReadOnly" /\ dom.ev.op = "load"
\* outside every with_level call, a thread at DenyAll was refused a load
\* from a cell it holds while the creating thread is at ReadWrite
C14_Witness ==
  /\ dom.ev.op = "load" /\ ~dom.ev.ok
  /\ dom.ev.by # 1
  /\ dom.asked[dom.ev.by] = <<"DenyAll">>
  /\ Top(dom.asked[1]) = "ReadWrite" /\ MayStore(dom.pkru[1])
\* inside with_level(ReadOnly, ..) entered at DenyAll, a load went through
C14_WitnessBracket ==
  /\ dom.ev.op = "load" /\ dom.ev.ok
  /\ dom.asked[dom.ev.by] = <<"DenyAll", "ReadOnly">>

\* C15: in teardown the label goes back to the kernel only after every
\* chunk of every bin has been unmapped: in no state is the label released
\* while a page of a chunk the heap recorded is mapped.
C15_ReleaseAfterReclaim ==
  dom.label = "released" =>
    \A ch \in dom.taken \cup Chunks(bins) :
      PagesOf(ch.ptr, ch.layout.size) \cap mapped = {}
\* the label is released after the heap had taken chunks in two bins
C15_Witness ==
  /\ dom.label = "released"
  /\ Cardinality(dom.taken) >= 2

\* C16: after the last handle of a domain is dropped and its destructor has
\* run, nothing the domain held is mapped, the label is released, and each
\* of the fifteen bins has an empty chunks list, a null free head and a
\* null bump.
C16_TeardownUnmapsAll ==
  (dom.handles = 0 /\ dom.dtor = 0) =>
    /\ dom.label = "released"
    /\ mapped = {}
    /\ \A c \in Classes : bins[c] = NewBin
\* the part of C16 about the bins: after the destructor every bin is as new
\* and no page of a chunk is mapped
C16_BinsReclaimed ==
  (dom.handles = 0 /\ dom.dtor = 0) =>
    /\ dom.label = "released"
    /\ \A c \in Classes : bins[c] = NewBin
    /\ \A ch \in dom.taken : PagesOf(ch.ptr, ch.layout.size) \cap mapped = {}

\* C17: with several handles, clones made by with_level included, the
\* chunks are reclaimed and the label released once each, by the drop of
\* the last handle, and not while another handle exists.
C17_TeardownOnceAtLastDrop ==
  /\ dom.reclaimed <= 1 /\ dom.released <= 1
  /\ (dom.reclaimed > 0 \/ dom.released > 0 \/ dom.dtor # 0) => dom.handles = 0
  /\ (dom.handles = 0 /\ dom.dtor = 0) => dom.reclaimed = 1 /\ dom.released = 1
\* the destructor has run after the domain had three handles, one of them
\* the clone with_level gave to f, and the heap had taken a chunk
C17_Witness ==
  /\ dom.handles = 0 /\ dom.dtor = 0
  /\ dom.reclaimed = 1 /\ dom.released = 1
  /\ dom.made >= 3
  /\ dom.taken # {}

\* C18: every failure of the page allocator's alloc and realloc is a null
\* return that leaves no partial state: an alloc the kernel refuses returns
\* null and maps nothing, and a realloc that has no mapping to return
\* returns null with the original mapping still mapped and its contents
\* as they were.
C18_FailureIsNull ==
  [][ (last'.n # last.n) =>
        /\ (last'.op = "pages.alloc" /\ enomem' < enomem) =>
              last'.ptr = NULL /\ mapped' = mapped
        /\ (last'.op = "pages.realloc" /\ ~last'.ok) =>
              /\ last'.ptr = NULL /\ ~fault'
              /\ PagesOf(last'.old, OldAlignedSize(last'.old_layout)) \subseteq mapped'
              /\ Contents(mem', last'.old, last'.old_layout.size) = last'.snap ]_vars

\* C19: when the kernel refuses the chunk a bin asks for, allocate reports
\* the allocation error and the bin's chunks list, bump pointer and free
\* head stay as they were, so every cell vended later lies in a chunk that
\* is mapped.
C19_FailedChunkNotRecorded ==
  [][ (last'.n # last.n /\ last'.op = "allocate" /\ enomem' < enomem
       /\ AllocBinOf(pad_to_align(last'.layout).size) # HUGE) =>
        ~last'.ok /\ bins' = bins ]_vars

\* C20: after a successful realloc of the page allocator exactly the
\* page-aligned new size is mapped at the returned base and nothing else of
\* the old mapping: the base is the old one when the new size fits the old
\* aligned size or the kernel placed the extension at the hint, otherwise a
\* fresh mapping holding the first min(old size, new size) bytes; dealloc
\* with the new size then unmaps exactly that mapping.
C20_ReallocMapsExactly ==
  (last.op = "pages.realloc" /\ last.ok) =>
    LET new == last.layout
        old_aligned == OldAlignedSize(last.old_layout)
        aligned == NewAlignedSize(last.old_layout, new.size)
        now == PagesOf(last.ptr, aligned)
        was == PagesOf(last.old, old_aligned)
        kept == {off \in DOMAIN last.snap : off < new.size}
        others == UNION {PagesOf(b.ptr, PageAllocLen(b.layout)) :
                           b \in Held \ {Block(last.ptr, new, 1)}}
    IN  /\ Block(last.ptr, new, 1) \in Held
        /\ mapped = others \cup now
        /\ others \cap now = {}
        /\ (was \ now) \cap mapped = {}
        /\ aligned = PageAllocLen(new)
        /\ new.size <= old_aligned => last.ptr = last.old
        /\ last.appended = last.old + old_aligned => last.ptr = last.old
        /\ last.ptr # last.old => was \cap now = {}
        /\ Contents(mem, last.ptr, Min(last.old_layout.size, new.size))
             = [off \in kept |-> last.snap[off]]
        /\ PageDealloc(Heap, last.ptr, new).mapped = others
\* a written mapping was moved by realloc after the kernel had placed the
\* extension away from the hint, and its bytes are at the new base
C20_Witness ==
  /\ last.op = "pages.realloc" /\ last.ok
  /\ last.ptr # last.old
  /\ DOMAIN last.snap # {}
  /\ last.appended # MAP_FAILED
  /\ Byte(mem, last.ptr) # 0
\* a mapping was moved by realloc while another mapping is held
C20_WitnessOthers ==
  /\ last.op = "pages.realloc" /\ last.ok
  /\ last.ptr # last.old
  /\ Cardinality(Held) = 2
\* a mapping was cut by realloc to fewer pages at the same base
C20_WitnessShrunk ==
  /\ last.op = "pages.realloc" /\ last.ok
  /\ last.ptr = last.old
  /\ NewAlignedSize(last.old_layout, last.layout.size) < OldAlignedSize(last.old_layout)
\* a mapping was extended by realloc in place
C20_WitnessExtended ==
  /\ last.op = "pages.realloc" /\ last.ok
  /\ last.ptr = last.old
  /\ NewAlignedSize(last.old_layout, last.layout.size) > OldAlignedSize(last.old_layout)

\* the Mutex thread t is about to take, "none" when it takes none
Wants(t) ==
  CASE th[t].pc = "add_one_lock" -> "page"
    [] th[t].pc = "add_one" ->
         IF AddOneMapLen(WithPage(Heap, th[t].bin, th[t].page), th[t].bin) # 0
         THEN "pages" ELSE "none"
    [] th[t].pc = "free_all" -> free_all_order[th[t].held + 1]
    [] OTHER -> "none"
\* free-list lock, bump lock, chunks lock
LockRank(f) == CASE f = "free_head" -> 1 [] f = "page" -> 2 [] f = "pages" -> 3
\* thread t waits for a Mutex another thread holds
Blocked(t) == Wants(t) # "none" /\ locks[th[t].bin][Wants(t)] \notin {NoOwner, t}
\* C21: a thread takes a bin's Mutexes only in the order free-list lock,
\* bump lock, chunks lock: allocate holds no free-list lock when it takes
\* the bump lock, deallocate holds the free-list lock only, free_all takes
\* all three in that order; and in no state of concurrent allocate,
\* deallocate and free_all calls does every thread inside a call wait for
\* a Mutex that another thread holds.
C21_LockOrderNoDeadlock ==
  /\ \A t \in Threads :
       /\ Wants(t) # "none" =>
            \A f \in HeldLocks(t, th[t].bin) : LockRank(f) < LockRank(Wants(t))
       /\ th[t].pc \in {"alloc", "dealloc"} => HeldLocks(t, th[t].bin) = {"free_head"}
       /\ th[t].pc = "add_one_lock" => HeldLocks(t, th[t].bin) = {}
       /\ th[t].pc = "add_one" => HeldLocks(t, th[t].bin) = {"page"}
       /\ th[t].pc = "idle" => \A c \in Classes : HeldLocks(t, c) = {}
  /\ ~fault
  /\ InCall # {} => \E t \in InCall : ~Blocked(t)
\* a thread in add_one holds the bump lock and is about to take the chunks
\* lock while a thread in free_all holds the free-list lock and waits for
\* the bump lock
C21_Witness ==
  \E t, u \in Threads :
    /\ th[t].pc = "add_one" /\ Wants(t) = "pages"
    /\ th[u].pc = "free_all" /\ th[u].bin = th[t].bin
    /\ HeldLocks(u, th[u].bin) = {"free_head"} /\ Blocked(u)

\* C22: under fair scheduling every allocate and deallocate call a thread
\* has started returns, whatever the other threads do on the same bin.
C22_EveryCallReturns ==
  \A t \in Threads : (th[t].pc # "idle") ~> (th[t].pc = "idle")
\* a thread inside allocate waits for the bump lock, which a thread that is
\* taking a chunk holds, while a third call on the bin has already returned
C22_Witness ==
  \E t, u \in Threads :
    /\ th[t].pc = "add_one_lock" /\ Blocked(t)
    /\ th[u].pc = "add_one" /\ th[u].bin = th[t].bin
    /\ last.n >= 1

\* the call that just returned is an allocate served by the bump path of
\* bin c: the free stack was empty and the active chunk had room for a cell
BumpStep(c) ==
  /\ last'.n = last.n + 1 /\ last'.op = "allocate" /\ last'.ok
  /\ AllocBinOf(pad_to_align(last'.layout).size) = c
  /\ bins[c].free_head = NULL
  /\ bins[c].page.ptr # NULL /\ bins[c].page.len >= size_of(c)
\* the bump path cuts adv bytes off the front of the unbumped suffix
BumpsBy(c, adv) ==
  /\ last'.ptr = bins[c].page.ptr
  /\ bins'[c].page.ptr = bins[c].page.ptr + adv
  /\ bins'[c].page.len = bins[c].page.len - adv
\* C23 as stated: on the bump path the returned cell starts the unbumped
\* suffix and the bump pointer advances, and the remaining length falls, by
\* the class's size from the size-class table, for each of the fifteen
\* classes.
C23_BumpByClassSize ==
  [][\A c \in Classes : BumpStep(c) => BumpsBy(c, SIZE(c))]_vars
\* C23: on the bump path the returned cell starts the unbumped suffix and
\* the bump pointer advances, and the remaining length falls, by the size
\* of the slot type: the class's size for the classes 8 .. 65536, and the
\* size of a pointer for the class 4, whose chunk yields 8192 cells.
C23_BumpBySlotSize ==
  [][/\ \A c \in Classes : BumpStep(c) => BumpsBy(c, size_of(c))
     /\ \A c \in Classes :
          size_of(c) = IF SIZE(c) < PtrSize THEN PtrSize ELSE SIZE(c)]_vars
\* the last two calls were allocations of the class 4 served by the bump
\* path, the second one slot above the first
C23_Witness ==
  /\ Len(hist) >= 3
  /\ \A i \in {Len(hist) - 1, Len(hist)} :
       /\ hist[i].op = "alloc" /\ hist[i].bin = 1
       /\ hist[i].ptr = hist[i - 1].bump
       /\ hist[i].bump = hist[i].ptr + size_of(1)
  /\ last.op = "allocate" /\ last.ptr = hist[Len(hist)].ptr

\* the call that just returned is deallocate of a cell of bin c
DeallocStep(c) ==
  /\ last'.n = last.n + 1 /\ last'.op = "deallocate"
  /\ DeallocBinOf(pad_to_align(last'.old_layout).size) = c
\* C24: deallocate of a bin cell changes only that bin's free head, which
\* becomes the freed cell, and the freed cell's link field, which receives
\* the old free head: the bin's bump pointer and chunks list, every other
\* bin, the set of mapped pages and every byte outside the link field are
\* unchanged.
C24_DeallocFrame ==
  [][\A c \in Classes : DeallocStep(c) =>
       /\ bins'[c].free_head = last'.old
       /\ LoadPtr(mem', last'.old) = bins[c].free_head
       /\ bins'[c].page = bins[c].page
       /\ bins'[c].pages = bins[c].pages
       /\ \A d \in Classes \ {c} : bins'[d] = bins[d]
       /\ mapped' = mapped
       /\ \A a \in (DOMAIN mem \cup DOMAIN mem') \ Range(last'.old, PtrSize) :
            Byte(mem', a) = Byte(mem, a)
       /\ fault' = fault /\ enomem' = enomem]_vars
\* a cell was just freed onto a non-empty free stack while another bin owns
\* a chunk
C24_Witness ==
  /\ last.op = "deallocate"
  /\ \E c \in Classes :
       /\ c = DeallocBinOf(pad_to_align(last.old_layout).size)
       /\ bins[c].free_head = last.old
       /\ LoadPtr(mem, last.old) # NULL
       /\ \E d \in Classes \ {c} : Len(bins[d].pages) > 0

\* the cells reached from p by at most n next links
RECURSIVE FreeWalk(_, _, _)
FreeWalk(m, p, n) ==
  IF p = NULL \/ n = 0 THEN {}
  ELSE {p} \cup FreeWalk(m, LoadPtr(m, p), n - 1)
\* the cells on bin c's free stack (no more than were ever deallocated)
FreeCells(c) == FreeWalk(mem, bins[c].free_head, Len(hist) + 1)
\* C25: in each bin every cell reachable from free_head through the next
\* links lies within a chunk recorded in that bin's chunks list.
C25_FreeCellsInChunks ==
  \A c \in Classes : \A p \in FreeCells(c) : InChunk(c, p, size_of(c))
\* a bin's free stack holds a cell freed after a free_all of the bin (a
\* call that returned and left no event), while a thread is inside a call
C25_Witness ==
  \E c \in Classes :
    /\ FreeCells(c) # {}
    /\ last.n > Len(hist)
    /\ InCall # {}

\* the cell of bin c at p and the unbumped suffix of bin c share no byte
OffSuffix(c, p) ==
  \/ p + size_of(c) <= bins[c].page.ptr
  \/ bins[c].page.ptr + bins[c].page.len <= p
\* C26: in each bin that has a bump slice, the unbumped suffix
\* (page.ptr, page.len) shares no byte with a cell of the bin's free stack
\* or a cell the bin has vended, and lies inside the chunk the bin acquired
\* last.
C26_SuffixDisjoint ==
  \A c \in Classes :
    bins[c].page.ptr # NULL =>
      /\ \A p \in FreeCells(c) : OffSuffix(c, p)
      /\ \A b \in LiveIn(c) : OffSuffix(c, b.ptr)
      /\ bins[c].pages # <<>>
      /\ LET chunk == bins[c].pages[Len(bins[c].pages)]
         IN  /\ chunk.ptr <= bins[c].page.ptr
             /\ bins[c].page.ptr + bins[c].page.len <= chunk.ptr + chunk.layout.size
\* a bin with two chunks, a non-empty unbumped suffix in the second one, a
\* vended cell and a free cell
C26_Witness ==
  \E c \in Classes :
    /\ Len(bins[c].pages) = 2
    /\ bins[c].page.len > 0
    /\ bins[c].page.ptr > bins[c].pages[2].ptr
    /\ FreeCells(c) # {} /\ LiveIn(c) # {}

\* the calls a domain forwards to its heap, and the heap's deallocate
HeapCalls == {"allocate", "allocate_zeroed", "grow", "grow_zeroed", "shrink", "push"}
\* C27: whatever access level the calling thread has, the heap's own reads
\* and writes of its blocks (the link read by a pop, the link written by a
\* push, the zeroing of allocate_zeroed, the copying of grow, grow_zeroed and
\* shrink) are made with rights that allow them, so that no call of the
\* heap ends in a fault.
C27_OwnAccessesElevated ==
  /\ ~fault
  /\ dom.ev.op \in HeapCalls => dom.ev.ok

\* the calls that replace a block by a new one
Regrows == {"grow", "grow_zeroed", "shrink", "realloc"}
\* the block the last call was made on is held, mapped and holds what it
\* held when the call was made
OldBlockKept ==
  /\ \E b \in Held : b.ptr = last.old /\ b.layout = last.old_layout
  /\ Accessible(Heap, last.old, last.old_layout.size)
  /\ Contents(mem, last.old, last.old_layout.size) = last.snap
\* C28: a grow, grow_zeroed, shrink or realloc that cannot obtain the new
\* block reports failure (the allocation error, or null) and leaves the old
\* block live and untouched: the call ends without a fault, either with a
\* new block that is mapped or with a failure and the old block kept (for
\* every such call on a block that allocate did map).
C28_FailureKeepsOld ==
  (last.op \in Regrows /\ last.old # MAP_FAILED) =>
    /\ ~fault
    /\ IF last.ok
       THEN Accessible(Heap, last.ptr, last.layout.size)
       ELSE OldBlockKept

=============================================================================
